---- MODULE Spec2Model ----
(***************************************************************************)
(* Model of confopt/estimation.py: the adaptive interval controllers       *)
(* (BaseACI, ACI, DtACI), the quantile interval representation             *)
(* (QuantileInterval, QuantileIntervalSequence) and the UCB sampler.       *)
(*                                                                         *)
(* Python floats are modelled as exact rationals <<n, d>> in lowest terms  *)
(* with d > 0, so every "+", "*", "/", max, min and comparison of the      *)
(* source is computed exactly; rounding error of the floats is not         *)
(* modelled.                                                               *)
(***************************************************************************)
EXTENDS Integers, Sequences, FiniteSets, TLC

VARIABLES
    args,       \* the arguments the constructor is (to be) called with
    phase,      \* "new" before the constructor ran, then "ready" or "failed"
    ctl,        \* the BaseACI / ACI / DtACI controller object (None if none)
    ret,        \* value returned by the last call (None when it returned nothing)
    exc,        \* exception raised by the last call ("none" when it returned)
    breaches,   \* the breach indicators passed to update so far, oldest first
    qorigin,    \* the list or interval sequence the caller started from
    qobj,       \* quantile_interval_sequence of the QuantileIntervalSequence at hand
    qlist,      \* the flattened list at hand
    qtrace,     \* the QuantileIntervalSequence methods called so far
    ucb,        \* the UCBSampler object (None if none)
    ts,         \* the ThompsonSampler object (None if none)
    calls,      \* the sampler methods called so far, oldest first
    cv,         \* the inputs of the tuning / cross-validation call at hand
    runs,       \* what each tuning / cross-validation call so far returned or raised
    eng         \* the conformal engine object (None if none)

ctlVars == <<args, phase, ctl, ret, exc, breaches>>

qisVars == <<qorigin, qobj, qlist, qtrace>>

restVars == <<ts, calls, cv, runs, eng>>

vars == <<args, phase, ctl, ret, exc, breaches, qorigin, qobj, qlist, qtrace, ucb,
          ts, calls, cv, runs, eng>>

None == <<>>

\* ----------------------------------------------------------------------- bounds
\* number of update calls made on an ACI / BaseACI controller
MaxUpdates == 6

\* number of update calls made on a DtACI controller
MaxDtUpdates == 4

\* number of intervals of a sequence; lists hold up to twice as many levels
MaxIntervals == 2

\* number of QuantileIntervalSequence method calls in one run
MaxQisCalls == 3

\* number of update_interval_width calls made on a sampler
MaxSamplerUpdates == 4

\* number of update_exploration_step calls made on a UCBSampler
MaxExplorationSteps == 3

\* largest n_quantiles whose ThompsonSampler is updated with every breach list
MaxThompsonN == 4

\* number of update_interval_width calls made on a ThompsonSampler
MaxThompsonUpdates == 2

\* length of the lists handed to average_scores_across_folds
MaxScored == 3

\* number of rows of a validation fold
MaxValRows == 1

\* number of tuning runs made on the same data with the same random_state
MaxRuns == 2

\* ------------------------------------------------------------ exact arithmetic
Abs(x) == IF x < 0 THEN -x ELSE x

RECURSIVE Gcd(_, _)
Gcd(a, b) == IF b = 0 THEN a ELSE Gcd(b, a % b)

\* n/d as a rational in lowest terms with a positive denominator (d # 0).
Rat(n, d) ==
    LET g == Gcd(Abs(n), Abs(d))
        s == IF d < 0 THEN -1 ELSE 1
    IN  <<(s * n) \div g, (s * d) \div g>>

RAdd(a, b) ==
    LET g == Gcd(a[2], b[2])
    IN  Rat(a[1] * (b[2] \div g) + b[1] * (a[2] \div g), (a[2] \div g) * b[2])

RNeg(a) == <<-a[1], a[2]>>

RSub(a, b) == RAdd(a, RNeg(b))

RMul(a, b) ==
    LET g1 == Gcd(Abs(a[1]), b[2])
        g2 == Gcd(Abs(b[1]), a[2])
    IN  Rat((a[1] \div g1) * (b[1] \div g2), (a[2] \div g2) * (b[2] \div g1))

\* a / b for b # 0
RDiv(a, b) == RMul(a, Rat(b[2], b[1]))

RLe(a, b) ==
    LET g == Gcd(a[2], b[2])
    IN  a[1] * (b[2] \div g) <= b[1] * (a[2] \div g)

RLt(a, b) == RLe(a, b) /\ a # b

\* Python's max(a, b) and min(a, b)
RMax(a, b) == IF RLt(a, b) THEN b ELSE a

RMin(a, b) == IF RLt(b, a) THEN b ELSE a

\* the variables of the Thompson sampler and of tuning when none is in play
NoRest == ts = None /\ calls = <<>> /\ cv = None /\ runs = <<>> /\ eng = None

\* the variables of the quantile interval sequence when none is in play
NoQis == qorigin = None /\ qobj = <<>> /\ qlist = <<>> /\ qtrace = <<>>

\* ------------------------------------------------------------- BaseACI and ACI
\* BaseACI.__init__ (ACI.__init__ only forwards to it)
BaseACI_init(cls, alpha, gamma) ==
    [cls |-> cls, alpha |-> alpha, gamma |-> gamma, alpha_t |-> alpha]

\* ACI.update without the lower clamp
ACI_update_noFloor(self, breach_indicator) ==
    LET a == RAdd(self.alpha_t,
                  RMul(self.gamma, RSub(self.alpha, Rat(breach_indicator, 1))))
    IN  [self EXCEPT !.alpha_t = RMin(a, Rat(99, 100))]

\* ACI.update with the sign of the correction flipped
ACI_update_flipped(self, breach_indicator) ==
    LET a == RAdd(self.alpha_t,
                  RMul(self.gamma, RSub(Rat(breach_indicator, 1), self.alpha)))
    IN  [self EXCEPT !.alpha_t = RMax(Rat(1, 100), RMin(a, Rat(99, 100)))]

\* ACI.update that also overwrites the target alpha with the new estimate
ACI_update_targetDrift(self, breach_indicator) ==
    LET a == RAdd(self.alpha_t,
                  RMul(self.gamma, RSub(self.alpha, Rat(breach_indicator, 1))))
        c == RMax(Rat(1, 100), RMin(a, Rat(99, 100)))
    IN  [self EXCEPT !.alpha_t = c, !.alpha = c]

\* ACI.update: the controller after the call; the call returns its alpha_t
ACI_update(self, breach_indicator) ==
    LET a == RAdd(self.alpha_t,
                  RMul(self.gamma, RSub(self.alpha, Rat(breach_indicator, 1))))
    IN  [self EXCEPT !.alpha_t = RMax(Rat(1, 100), RMin(a, Rat(99, 100)))]

\* BaseACI.update raising another exception type
BaseACI_update_exc_ValueError == "ValueError"

\* BaseACI.update: the exception it raises
BaseACI_update_exc == "NotImplementedError"

\* constructor arguments the controller is built with
ACIAlphas == {Rat(1, 10), Rat(4, 5), Rat(1, 1)}

ACIGammas == {Rat(1, 100), Rat(1, 20), Rat(1, 2)}

InitACI ==
    /\ args = None
    /\ phase = "ready"
    /\ \E cls \in {"BaseACI", "ACI"}, alpha \in ACIAlphas, gamma \in ACIGammas :
          ctl = BaseACI_init(cls, alpha, gamma)
    /\ ret = None
    /\ exc = "none"
    /\ breaches = <<>>
    /\ NoQis
    /\ ucb = None
    /\ NoRest

\* a call of update on an ACI instance
ACIUpdate ==
    /\ ctl.cls = "ACI"
    /\ Len(breaches) < MaxUpdates
    /\ \E b \in {0, 1} :
          /\ ctl' = ACI_update(ctl, b)
          /\ breaches' = Append(breaches, b)
    /\ ret' = ctl'.alpha_t
    /\ exc' = "none"
    /\ UNCHANGED <<args, phase, qisVars, ucb, restVars>>

\* a call of update on a BaseACI instance
BaseACIUpdate ==
    /\ ctl.cls = "BaseACI"
    /\ Len(breaches) < MaxUpdates
    /\ \E b \in {0, 1} : breaches' = Append(breaches, b)
    /\ exc' = BaseACI_update_exc
    /\ UNCHANGED <<args, phase, ctl, ret, qisVars, ucb, restVars>>

NextACI == ACIUpdate \/ BaseACIUpdate

SpecACI == InitACI /\ [][NextACI]_vars

\* ------------------------------------------------------------ claims on ACI
\* the call that just happened was an update (every action appends its breach)
Updated == Len(breaches') = Len(breaches) + 1

AllOnes(s) == \A i \in 1..Len(s) : s[i] = 1

\* C1: after any non-empty sequence of update calls on an ACI controller,
\* alpha_t lies in [0.01, 0.99] and the value the last update returned is
\* that alpha_t.
C1_AlphaTBounded ==
    (ctl.cls = "ACI" /\ breaches # <<>>) =>
        /\ RLe(<<1, 100>>, ctl.alpha_t)
        /\ RLe(ctl.alpha_t, <<99, 100>>)
        /\ ret = ctl.alpha_t

\* C1 witness: an ACI controller driven onto the upper clamp by two or more
\* updates.
C1_Witness ==
    /\ ctl.cls = "ACI"
    /\ Len(breaches) >= 2
    /\ ctl.alpha_t = <<99, 100>>
    /\ ret = <<99, 100>>

\* C2: one update(breach) sets alpha_t to
\* clamp(old alpha_t + gamma*(alpha - breach), 0.01, 0.99) and changes neither
\* the target alpha nor gamma.
C2_UpdateRule ==
    [][(ctl.cls = "ACI" /\ Updated) =>
         LET b   == breaches'[Len(breaches')]
             raw == RAdd(ctl.alpha_t, RMul(ctl.gamma, RSub(ctl.alpha, <<b, 1>>)))
             exp == IF RLt(raw, <<1, 100>>) THEN <<1, 100>>
                    ELSE IF RLt(<<99, 100>>, raw) THEN <<99, 100>>
                    ELSE raw
         IN  /\ ctl'.alpha_t = exp
             /\ ctl'.alpha = ctl.alpha
             /\ ctl'.gamma = ctl.gamma]_vars

\* C2 witness: alpha = 0.8, gamma = 0.05, after update(0) then update(1):
\* 0.8 + 0.05*0.8 = 0.84, then 0.84 + 0.05*(0.8 - 1) = 0.83, unclamped, with
\* the target and gamma as constructed.
C2_Witness ==
    /\ ctl.cls = "ACI"
    /\ breaches = <<0, 1>>
    /\ ctl.alpha = <<4, 5>>
    /\ ctl.gamma = <<1, 20>>
    /\ ctl.alpha_t = <<83, 100>>

\* the scenario of C3: ACI(alpha=0.1, gamma=0.05), the step just taken is one
\* of the first 5 updates, all of them with breach = 1
C3_Scenario ==
    /\ ctl.cls = "ACI"
    /\ ctl.alpha = <<1, 10>>
    /\ ctl.gamma = <<1, 20>>
    /\ Updated
    /\ Len(breaches') <= 5
    /\ AllOnes(breaches')

\* C3 as stated: with alpha=0.1, gamma=0.05 and breach=1 on 5 consecutive
\* updates, alpha_t strictly decreases at every one of the 5 steps and never
\* goes below 0.01.
C3_StrictDecreaseEveryStep ==
    [][C3_Scenario =>
         /\ RLt(ctl'.alpha_t, ctl.alpha_t)
         /\ RLe(<<1, 100>>, ctl'.alpha_t)]_vars

\* C3 amended: in that scenario alpha_t never increases, strictly decreases
\* at every step that starts above 0.01, and never goes below 0.01.
C3_DecreaseUntilFloor ==
    [][C3_Scenario =>
         /\ RLe(ctl'.alpha_t, ctl.alpha_t)
         /\ (RLt(<<1, 100>>, ctl.alpha_t) => RLt(ctl'.alpha_t, ctl.alpha_t))
         /\ RLe(<<1, 100>>, ctl'.alpha_t)]_vars

\* C3 witness: the scenario after its 5 updates, alpha_t on the floor.
C3_Witness ==
    /\ ctl.cls = "ACI"
    /\ ctl.alpha = <<1, 10>>
    /\ ctl.gamma = <<1, 20>>
    /\ breaches = <<1, 1, 1, 1, 1>>
    /\ ctl.alpha_t = <<1, 100>>

\* C4 as stated: update called on a BaseACI fails with ValueError and leaves
\* alpha_t unchanged.
C4_BaseUpdateValueError ==
    [][(ctl.cls = "BaseACI" /\ Updated) =>
         /\ exc' = "ValueError"
         /\ ctl'.alpha_t = ctl.alpha_t]_vars

\* C4 amended: update called on a BaseACI fails with NotImplementedError,
\* returns nothing and leaves the controller (alpha_t included) unchanged.
C4_BaseUpdateNotImplemented ==
    [][(ctl.cls = "BaseACI" /\ Updated) =>
         /\ exc' = "NotImplementedError"
         /\ ret' = ret
         /\ ctl' = ctl]_vars

\* C4 witness: a BaseACI whose update was called and raised, alpha_t still
\* the constructor's alpha.
C4_Witness ==
    /\ ctl.cls = "BaseACI"
    /\ Len(breaches) >= 1
    /\ exc = "NotImplementedError"
    /\ ctl.alpha_t = ctl.alpha

\* ----------------------------------------------------------------------- DtACI
\* np.sum over a sequence of rationals
RECURSIVE RSum(_)
RSum(s) == IF s = <<>> THEN <<0, 1>> ELSE RAdd(s[1], RSum(Tail(s)))

\* np.dot of two sequences of the same length
Dot(w, a) == RSum([i \in 1..Len(w) |-> RMul(w[i], a[i])])

\* np.clip(x, lo, hi)
Clip(x, lo, hi) == RMin(RMax(x, lo), hi)

\* np.abs
RAbs(a) == <<Abs(a[1]), a[2]>>

\* np.exp, by its Taylor polynomial of degree 2: like exp it is 1 at 0,
\* positive everywhere and strictly increasing on [-1, 0], where the model
\* evaluates it
Exp(x) == RAdd(<<1, 1>>, RAdd(x, RMul(RMul(x, x), <<1, 2>>)))

\* the default of gamma_candidates
DefaultGammaCandidates ==
    <<Rat(1, 1000), Rat(2, 1000), Rat(4, 1000), Rat(8, 1000),
      Rat(16, 1000), Rat(32, 1000), Rat(64, 1000), Rat(128, 1000)>>

\* the four validity tests of DtACI.__init__, with alpha = 0 let through
DtACI_invalid_alphaZeroOk(alpha, gamma_candidates, eta, sigma) ==
    \/ ~(RLe(<<0, 1>>, alpha) /\ RLt(alpha, <<1, 1>>))
    \/ \E i \in 1..Len(gamma_candidates) : RLe(gamma_candidates[i], <<0, 1>>)
    \/ RLe(eta, <<0, 1>>)
    \/ ~(RLe(<<0, 1>>, sigma) /\ RLe(sigma, <<1, 1>>))

\* the four validity tests of DtACI.__init__: TRUE when it raises ValueError
DtACI_invalid(alpha, gamma_candidates, eta, sigma) ==
    \/ ~(RLt(<<0, 1>>, alpha) /\ RLt(alpha, <<1, 1>>))
    \/ \E i \in 1..Len(gamma_candidates) : RLe(gamma_candidates[i], <<0, 1>>)
    \/ RLe(eta, <<0, 1>>)
    \/ ~(RLe(<<0, 1>>, sigma) /\ RLe(sigma, <<1, 1>>))

\* the object DtACI.__init__ builds once its arguments passed validation.
\* np.ones(K) * alpha and np.ones(K) / K are arrays of K equal entries (empty
\* arrays, without an error, for K = 0).
DtACI_init(alpha, gamma_candidates, eta, sigma) ==
    LET K == Len(gamma_candidates)
    IN  [cls              |-> "DtACI",
         alpha            |-> alpha,
         gamma            |-> None,
         gamma_candidates |-> gamma_candidates,
         eta              |-> eta,
         sigma            |-> sigma,
         num_experts      |-> K,
         alpha_t          |-> [i \in 1..K |-> alpha],
         weights          |-> [i \in 1..K |-> Rat(1, K)]]

\* the loop over the experts in DtACI.update
DtACI_experts(self, breach_indicator) ==
    [i \in 1..self.num_experts |->
        RAdd(self.alpha_t[i],
             RMul(self.gamma_candidates[i],
                  RSub(self.alpha, <<breach_indicator, 1>>)))]

\* the weight update with the division by np.sum(self.weights) left out
DtACI_weights_noNormalise(self, breach_indicator) ==
    LET losses == RAbs(RSub(self.alpha, <<breach_indicator, 1>>))
        f      == Exp(RNeg(RMul(self.eta, losses)))
        w      == [i \in 1..self.num_experts |-> RMul(self.weights[i], f)]
    IN  [i \in 1..self.num_experts |->
            RAdd(RMul(RSub(<<1, 1>>, self.sigma), w[i]),
                 RDiv(self.sigma, <<self.num_experts, 1>>))]

\* the weight update with a loss of its own for every expert, taken from the
\* expert's estimate instead of the shared target alpha
DtACI_weights_perExpert(self, breach_indicator) ==
    LET w     == [i \in 1..self.num_experts |->
                     RMul(self.weights[i],
                          Exp(RNeg(RMul(self.eta,
                                RAbs(RSub(self.alpha_t[i], <<breach_indicator, 1>>))))))]
        total == RSum(w)
    IN  [i \in 1..self.num_experts |->
            RAdd(RDiv(RMul(RSub(<<1, 1>>, self.sigma), w[i]), total),
                 RDiv(self.sigma, <<self.num_experts, 1>>))]

\* the exponential weighting and the mixing with the uniform distribution in
\* DtACI.update (self.num_experts >= 1)
DtACI_weights(self, breach_indicator) ==
    LET losses == RAbs(RSub(self.alpha, <<breach_indicator, 1>>))
        f      == Exp(RNeg(RMul(self.eta, losses)))
        w      == [i \in 1..self.num_experts |-> RMul(self.weights[i], f)]
        total  == RSum(w)
    IN  [i \in 1..self.num_experts |->
            RAdd(RDiv(RMul(RSub(<<1, 1>>, self.sigma), w[i]), total),
                 RDiv(self.sigma, <<self.num_experts, 1>>))]

\* the value DtACI.update returns, without the clip
DtACI_final_noClip(self) == Dot(self.weights, self.alpha_t)

\* the value DtACI.update returns, computed from the updated object
DtACI_final(self) == Clip(Dot(self.weights, self.alpha_t), <<0, 1>>, <<1, 1>>)

\* DtACI.update: the controller after a call that returns
DtACI_update(self, breach_indicator) ==
    [self EXCEPT !.alpha_t = DtACI_experts(self, breach_indicator),
                 !.weights = DtACI_weights(self, breach_indicator)]

\* constructor arguments tried; gamma_candidates = None is [isNone |-> TRUE]
DtAlphas == {Rat(0, 1), Rat(1, 10), Rat(4, 5), Rat(1, 1)}

DtGammaArgs ==
    {[isNone |-> TRUE, list |-> <<>>],
     [isNone |-> FALSE, list |-> <<Rat(1, 10), Rat(1, 2)>>],
     [isNone |-> FALSE, list |-> <<Rat(1, 2), Rat(1, 4), Rat(1, 8)>>],
     [isNone |-> FALSE, list |-> <<>>],
     [isNone |-> FALSE, list |-> <<Rat(1, 10), Rat(0, 1)>>],
     [isNone |-> FALSE, list |-> <<Rat(-1, 100), Rat(1, 10)>>]}

DtEtas == {Rat(0, 1), Rat(1, 10), Rat(1, 1)}

DtSigmas == {Rat(-1, 100), Rat(0, 1), Rat(1, 100), Rat(1, 1), Rat(3, 2)}

InitDtACI ==
    /\ args \in [alpha : DtAlphas, gamma_candidates : DtGammaArgs,
                 eta : DtEtas, sigma : DtSigmas]
    /\ phase = "new"
    /\ ctl = None
    /\ ret = None
    /\ exc = "none"
    /\ breaches = <<>>
    /\ NoQis
    /\ ucb = None
    /\ NoRest

\* the gamma_candidates the constructor works with (the default for None)
GammaCandidatesOf(a) ==
    IF a.gamma_candidates.isNone THEN DefaultGammaCandidates
    ELSE a.gamma_candidates.list

\* DtACI(alpha, gamma_candidates, eta, sigma) raising ValueError
DtACIConstructFails ==
    /\ phase = "new"
    /\ DtACI_invalid(args.alpha, GammaCandidatesOf(args), args.eta, args.sigma)
    /\ phase' = "failed"
    /\ exc' = "ValueError"
    /\ UNCHANGED <<args, ctl, ret, breaches, qisVars, ucb, restVars>>

\* DtACI(alpha, gamma_candidates, eta, sigma) returning the object
DtACIConstruct ==
    /\ phase = "new"
    /\ ~DtACI_invalid(args.alpha, GammaCandidatesOf(args), args.eta, args.sigma)
    /\ phase' = "ready"
    /\ ctl' = DtACI_init(args.alpha, GammaCandidatesOf(args), args.eta, args.sigma)
    /\ UNCHANGED <<args, ret, exc, breaches, qisVars, ucb, restVars>>

\* update(breach_indicator) with breach_indicator not in [0, 1]
DtACIUpdateBadBreach ==
    /\ phase = "ready"
    /\ Len(breaches) < MaxDtUpdates
    /\ \E b \in {2} : breaches' = Append(breaches, b)
    /\ exc' = "ValueError"
    /\ UNCHANGED <<args, phase, ctl, ret, qisVars, ucb, restVars>>

\* update(breach_indicator) on a controller without experts: both loops and
\* the array operations run over nothing, then self.sigma / self.num_experts
\* divides by zero
DtACIUpdateNoExperts ==
    /\ phase = "ready"
    /\ Len(breaches) < MaxDtUpdates
    /\ ctl.num_experts = 0
    /\ \E b \in {0, 1} : breaches' = Append(breaches, b)
    /\ exc' = "ZeroDivisionError"
    /\ UNCHANGED <<args, phase, ctl, ret, qisVars, ucb, restVars>>

\* update(breach_indicator) returning the new alpha
DtACIUpdate ==
    /\ phase = "ready"
    /\ Len(breaches) < MaxDtUpdates
    /\ ctl.num_experts >= 1
    /\ \E b \in {0, 1} :
          /\ ctl' = DtACI_update(ctl, b)
          /\ breaches' = Append(breaches, b)
    /\ ret' = DtACI_final(ctl')
    /\ exc' = "none"
    /\ UNCHANGED <<args, phase, qisVars, ucb, restVars>>

NextDtACI ==
    \/ DtACIConstructFails
    \/ DtACIConstruct
    \/ DtACIUpdateBadBreach
    \/ DtACIUpdateNoExperts
    \/ DtACIUpdate

SpecDtACI == InitDtACI /\ [][NextDtACI]_vars

\* ---------------------------------------------------------- claims on DtACI
\* some update call was made with a breach in {0, 1}
DtUpdated == \E i \in 1..Len(breaches) : breaches[i] \in {0, 1}

\* C5: DtACI's constructor raises ValueError at once exactly when alpha is
\* not strictly between 0 and 1, some gamma candidate is <= 0, eta is <= 0 or
\* sigma is outside [0, 1]; otherwise it succeeds with every expert's alpha
\* estimate equal to alpha and every weight equal to 1/K.
C5_ConstructorValidates ==
    LET g   == IF args.gamma_candidates.isNone THEN DefaultGammaCandidates
               ELSE args.gamma_candidates.list
        K   == Len(g)
        bad == \/ args.alpha[1] <= 0
               \/ args.alpha[1] >= args.alpha[2]
               \/ \E i \in 1..K : g[i][1] <= 0
               \/ args.eta[1] <= 0
               \/ args.sigma[1] < 0
               \/ args.sigma[1] > args.sigma[2]
    IN  /\ phase = "failed" => (bad /\ exc = "ValueError" /\ breaches = <<>>)
        /\ phase = "ready" => ~bad
        /\ (phase = "ready" /\ breaches = <<>>) =>
              /\ ctl.num_experts = K
              /\ Len(ctl.alpha_t) = K
              /\ Len(ctl.weights) = K
              /\ \A i \in 1..K : ctl.alpha_t[i] = args.alpha /\ ctl.weights[i] = <<1, K>>

\* C5 witness: the constructor called with alpha = 1 (all else valid, the
\* default gamma candidates) has raised ValueError.
C5_Witness ==
    /\ phase = "failed"
    /\ exc = "ValueError"
    /\ args.alpha = <<1, 1>>
    /\ args.gamma_candidates.isNone
    /\ args.eta = <<1, 10>>
    /\ args.sigma = <<1, 100>>

\* C6: after any update call on a DtACI with K >= 1 experts, the K weights
\* sum to 1 and every weight lies in [sigma/K, 1].
C6_WeightsNormalised ==
    (phase = "ready" /\ DtUpdated /\ ctl.num_experts >= 1) =>
        /\ RSum(ctl.weights) = <<1, 1>>
        /\ \A i \in 1..ctl.num_experts :
              /\ RLe(ctl.sigma, RMul(ctl.weights[i], <<ctl.num_experts, 1>>))
              /\ RLe(ctl.weights[i], <<1, 1>>)

\* C6 witness: three experts, sigma = 0.01, eta = 1, after update(0) and
\* update(1).
C6_Witness ==
    /\ phase = "ready"
    /\ breaches = <<0, 1>>
    /\ ctl.num_experts = 3
    /\ ctl.sigma = <<1, 100>>
    /\ ctl.eta = <<1, 1>>
    /\ RSum(ctl.weights) = <<1, 1>>

\* C7: an update call (breach in {0, 1}, K >= 1) returns the sum over the
\* experts of weight_i * alpha_t_i, taken after the update, clipped to
\* [0, 1]; so the returned value is in [0, 1] although the experts' own
\* estimates are not clamped.
C7_ReturnsClippedAverage ==
    (/\ phase = "ready"
     /\ breaches # <<>>
     /\ breaches[Len(breaches)] \in {0, 1}
     /\ ctl.num_experts >= 1) =>
        LET raw == RSum([i \in 1..ctl.num_experts |->
                            RMul(ctl.weights[i], ctl.alpha_t[i])])
        IN  /\ exc = "none"
            /\ ret = IF raw[1] < 0 THEN <<0, 1>>
                     ELSE IF raw[1] > raw[2] THEN <<1, 1>>
                     ELSE raw
            /\ ret[1] >= 0
            /\ ret[1] <= ret[2]

\* C7 witness: an update returned 1 because the weighted average exceeded 1,
\* with an expert estimate above 1.
C7_Witness ==
    /\ phase = "ready"
    /\ breaches # <<>>
    /\ breaches[Len(breaches)] = 0
    /\ ctl.num_experts >= 1
    /\ ret = <<1, 1>>
    /\ RLt(<<1, 1>>, Dot(ctl.weights, ctl.alpha_t))
    /\ \E i \in 1..ctl.num_experts : RLt(<<1, 1>>, ctl.alpha_t[i])

\* C26: in a DtACI with K >= 1 experts every weight is 1/K after any sequence
\* of update calls, the loss factor being the same for all experts; the value
\* an update returns is the unweighted mean of the experts' estimates clipped
\* to [0, 1].
C26_WeightsStayUniform ==
    (phase = "ready" /\ ctl.num_experts >= 1) =>
        /\ Len(ctl.weights) = ctl.num_experts
        /\ \A i \in 1..ctl.num_experts :
              ctl.weights[i] = Rat(1, ctl.num_experts)
        /\ (breaches # <<>> /\ breaches[Len(breaches)] \in {0, 1}) =>
              LET sum  == RSum(ctl.alpha_t)
                  mean == Rat(sum[1], sum[2] * ctl.num_experts)
              IN  ret = IF mean[1] < 0 THEN <<0, 1>>
                        ELSE IF mean[1] > mean[2] THEN <<1, 1>>
                        ELSE mean

\* C26 witness: three experts with different step sizes after update(1),
\* update(0), update(1): their estimates differ and the weights are 1/3 each.
C26_Witness ==
    /\ phase = "ready"
    /\ breaches = <<1, 0, 1>>
    /\ ctl.num_experts = 3
    /\ ctl.alpha_t[1] # ctl.alpha_t[2]
    /\ ctl.weights = <<<<1, 3>>, <<1, 3>>, <<1, 3>>>>
    /\ ctl.sigma = <<1, 100>>

\* ------------------------------------ QuantileInterval, QuantileIntervalSequence
\* A QuantileInterval is the pair <<lower_quantile_level, upper_quantile_level>>;
\* a QuantileIntervalSequence is its quantile_interval_sequence list.

\* QuantileInterval.to_list
QuantileInterval_to_list(qi) == <<qi[1], qi[2]>>

\* list.sort(): ascending and stable. Element i goes to the position that
\* counts the elements below it and the equal ones not after it.
Sort(s) ==
    LET placed == {<<Cardinality({j \in 1..Len(s) :
                        \/ RLt(s[j], s[i])
                        \/ s[j] = s[i] /\ j <= i}), i>> : i \in 1..Len(s)}
    IN  [r \in 1..Len(s) |-> s[(CHOOSE p \in placed : p[1] = r)[2]]]

\* the loop of to_flattened_list: extend by every interval's to_list()
RECURSIVE Flatten(_)
Flatten(seq) ==
    IF seq = <<>> THEN <<>>
    ELSE QuantileInterval_to_list(seq[1]) \o Flatten(Tail(seq))

\* QuantileIntervalSequence.to_flattened_list
to_flattened_list(self) == Sort(Flatten(self))

\* from_flattened_list pairing the lower half with the upper half in order
from_flattened_list_halves(flattened_list) ==
    LET l == Sort(flattened_list)
        k == Len(l) \div 2
    IN  [i \in 1..k |-> <<l[i], l[k + i]>>]

\* from_flattened_list without the sort
from_flattened_list_noSort(flattened_list) ==
    LET l == flattened_list
    IN  [i \in 1..(Len(l) \div 2) |-> <<l[i], l[Len(l) + 1 - i]>>]

\* QuantileIntervalSequence.from_flattened_list: the intervals of the sequence
\* it returns (flattened_list[0 + i] and flattened_list[-1 - i], i from 0)
from_flattened_list(flattened_list) ==
    LET l == Sort(flattened_list)
    IN  [i \in 1..(Len(l) \div 2) |-> <<l[i], l[Len(l) + 1 - i]>>]

\* quantile levels the lists and intervals are built from
Levels == {Rat(1, 10), Rat(3, 10), Rat(7, 10), Rat(9, 10)}

\* all sequences over S of length at most n
SeqsUpTo(S, n) == UNION {[1..k -> S] : k \in 0..n}

InitQIS ==
    /\ \/ /\ qobj \in SeqsUpTo(Levels \X Levels, MaxIntervals)
          /\ qlist = <<>>
          /\ qorigin = [kind |-> "sequence", value |-> qobj]
       \/ /\ qlist \in SeqsUpTo(Levels, 2 * MaxIntervals)
          /\ qobj = <<>>
          /\ qorigin = [kind |-> "list", value |-> qlist]
    /\ qtrace = <<>>
    /\ args = None
    /\ phase = "ready"
    /\ ctl = None
    /\ ret = None
    /\ exc = "none"
    /\ breaches = <<>>
    /\ ucb = None
    /\ NoRest

\* flat = seq.to_flattened_list()
ToFlattenedList ==
    /\ Len(qtrace) < MaxQisCalls
    /\ qorigin.kind = "sequence" \/ qtrace # <<>>
    /\ qlist' = to_flattened_list(qobj)
    /\ qtrace' = Append(qtrace, "to_flattened_list")
    /\ UNCHANGED <<qorigin, qobj, ctlVars, ucb, restVars>>

\* seq = QuantileIntervalSequence().from_flattened_list(flat); the argument
\* list is sorted in place
FromFlattenedList ==
    /\ Len(qtrace) < MaxQisCalls
    /\ qorigin.kind = "list" \/ qtrace # <<>>
    /\ qobj' = from_flattened_list(qlist)
    /\ qlist' = Sort(qlist)
    /\ qtrace' = Append(qtrace, "from_flattened_list")
    /\ UNCHANGED <<qorigin, ctlVars, ucb, restVars>>

NextQIS == ToFlattenedList \/ FromFlattenedList

SpecQIS == InitQIS /\ [][NextQIS]_vars

\* ------------------------------------- claims on QuantileIntervalSequence
\* the intervals of seq are nested, ordered outward to inward
Nested(seq) ==
    /\ \A i \in 1..Len(seq) : seq[i][1][1] * seq[i][2][2] <= seq[i][2][1] * seq[i][1][2]
    /\ \A i \in 1..Len(seq), j \in 1..Len(seq) :
          i < j =>
             /\ seq[i][1][1] * seq[j][1][2] <= seq[j][1][1] * seq[i][1][2]
             /\ seq[j][2][1] * seq[i][2][2] <= seq[i][2][1] * seq[j][2][2]

\* the i-th smallest entry of the list L (1 <= i <= Len(L)), by rank
Ranked(L, i) ==
    CHOOSE x \in {L[j] : j \in 1..Len(L)} :
        /\ Cardinality({j \in 1..Len(L) : L[j][1] * x[2] < x[1] * L[j][2]}) < i
        /\ i <= Cardinality({j \in 1..Len(L) : L[j][1] * x[2] <= x[1] * L[j][2]})

\* C8: for a sequence of k nested intervals ordered outward to inward,
\* from_flattened_list(to_flattened_list(seq)) has the same k (lower, upper)
\* pairs in the same order.
C8_RoundTrip ==
    (/\ qorigin.kind = "sequence"
     /\ Nested(qorigin.value)
     /\ qtrace = <<"to_flattened_list", "from_flattened_list">>) =>
        qobj = qorigin.value

\* C8 witness: [(0.1, 0.9), (0.3, 0.7)] flattened and rebuilt.
C8_Witness ==
    /\ qorigin.kind = "sequence"
    /\ qorigin.value = <<<<Rat(1, 10), Rat(9, 10)>>, <<Rat(3, 10), Rat(7, 10)>>>>
    /\ qtrace = <<"to_flattened_list", "from_flattened_list">>
    /\ qobj = qorigin.value

\* C9: for an even-length list L, from_flattened_list(L) has len(L)/2
\* intervals, interval i being (s[i], s[len-1-i]) for s = L sorted ascending;
\* they are nested outward to inward, and to_flattened_list of the result is
\* s. [0.1, 0.9, 0.3, 0.7] gives [(0.1, 0.9), (0.3, 0.7)], which flattens to
\* [0.1, 0.3, 0.7, 0.9].
C9_FromFlattened ==
    (/\ qorigin.kind = "list"
     /\ Len(qorigin.value) % 2 = 0
     /\ qtrace # <<>>
     /\ qtrace[1] = "from_flattened_list") =>
        LET L == qorigin.value
            n == Len(L)
            s == [i \in 1..n |-> Ranked(L, i)]
        IN  /\ Len(qtrace) = 1 =>
                 /\ Len(qobj) = n \div 2
                 /\ \A i \in 1..Len(qobj) : qobj[i] = <<s[i], s[n + 1 - i]>>
                 /\ Nested(qobj)
            /\ (Len(qtrace) = 2 /\ qtrace[2] = "to_flattened_list") =>
                 qlist = s
            /\ (L = <<Rat(1, 10), Rat(9, 10), Rat(3, 10), Rat(7, 10)>>) =>
                 /\ Len(qtrace) = 1 =>
                      qobj = <<<<Rat(1, 10), Rat(9, 10)>>, <<Rat(3, 10), Rat(7, 10)>>>>
                 /\ (Len(qtrace) = 2 /\ qtrace[2] = "to_flattened_list") =>
                      qlist = <<Rat(1, 10), Rat(3, 10), Rat(7, 10), Rat(9, 10)>>

\* C9 witness: [0.1, 0.9, 0.3, 0.7] rebuilt and flattened again.
C9_Witness ==
    /\ qorigin.kind = "list"
    /\ qorigin.value = <<Rat(1, 10), Rat(9, 10), Rat(3, 10), Rat(7, 10)>>
    /\ qtrace = <<"from_flattened_list", "to_flattened_list">>
    /\ qobj = <<<<Rat(1, 10), Rat(9, 10)>>, <<Rat(3, 10), Rat(7, 10)>>>>
    /\ qlist = <<Rat(1, 10), Rat(3, 10), Rat(7, 10), Rat(9, 10)>>

\* ------------------------------------------------------------------ UCBSampler
\* ACI(alpha=...) as the samplers build it: gamma keeps its default 0.01
ACI_default(alpha) == BaseACI_init("ACI", alpha, Rat(1, 100))

\* DtACI(alpha=...) as the samplers build it: default candidates, eta = 0.1,
\* sigma = 0.01
DtACI_default(alpha) ==
    DtACI_init(alpha, DefaultGammaCandidates, Rat(1, 10), Rat(1, 100))

\* TRUE when DtACI(alpha=...) raises ValueError
DtACI_default_invalid(alpha) ==
    DtACI_invalid(alpha, DefaultGammaCandidates, Rat(1, 10), Rat(1, 100))

\* adapter.update(breach_indicator): the adapter after the call
Adapter_update(adapter, breach_indicator) ==
    IF adapter.cls = "ACI" THEN ACI_update(adapter, breach_indicator)
    ELSE DtACI_update(adapter, breach_indicator)

\* the value that call returned, from the adapter after the call
Adapter_returned(adapter) ==
    IF adapter.cls = "ACI" THEN adapter.alpha_t ELSE DtACI_final(adapter)

\* [1 - (alpha / 2), alpha / 2]
SymmetricQuantiles_swapped(alpha) ==
    <<RSub(<<1, 1>>, RDiv(alpha, <<2, 1>>)), RDiv(alpha, <<2, 1>>)>>

\* [alpha / 2, 1 - (alpha / 2)]
SymmetricQuantiles(alpha) ==
    <<RDiv(alpha, <<2, 1>>), RSub(<<1, 1>>, RDiv(alpha, <<2, 1>>))>>

\* The exploration weight beta is a plain number or a multiple of a natural
\* logarithm: [num, k, ln] stands for num + k * np.log(ln), exactly.
BetaNumber(x) == [num |-> x, k |-> <<0, 1>>, ln |-> 1]

\* k * np.log(m) for an integer m >= 1; np.log(1) is 0
ScaledLog(k, m) ==
    IF m = 1 \/ k[1] = 0 THEN BetaNumber(<<0, 1>>)
    ELSE [num |-> <<0, 1>>, k |-> k, ln |-> m]

\* UCBSampler.__init__ once the adapter is built. The attribute adapter is a
\* list of no or one controller here: it is not set when adapter_framework is
\* None.
UCBSampler_init(beta_decay, beta, c, interval_width, adapter_framework) ==
    LET alpha == RSub(<<1, 1>>, interval_width)
    IN  [beta_decay     |-> beta_decay,
         beta           |-> BetaNumber(beta),
         c              |-> c,
         interval_width |-> interval_width,
         alpha          |-> alpha,
         adapter        |-> IF adapter_framework = "ACI" THEN <<ACI_default(alpha)>>
                            ELSE IF adapter_framework = "DtACI"
                                 THEN <<DtACI_default(alpha)>>
                            ELSE <<>>,
         quantiles      |-> SymmetricQuantiles(alpha),
         t              |-> 1]

\* UCBSampler.fetch_alpha
UCBSampler_fetch_alpha(self) == self.alpha

\* UCBSampler.fetch_quantiles: the QuantileInterval it returns
UCBSampler_fetch_quantiles(self) == <<self.quantiles[1], self.quantiles[2]>>

\* update_exploration_step that advances t before it computes beta
UCBSampler_update_exploration_step_tFirst(self) ==
    LET t == self.t + 1
    IN  [self EXCEPT
            !.t = t,
            !.beta = IF self.beta_decay = "logarithmic_decay"
                     THEN ScaledLog(RDiv(self.c, <<t, 1>>), t)
                     ELSE IF self.beta_decay = "logarithmic_growth"
                          THEN ScaledLog(<<2, 1>>, t + 1)
                     ELSE self.beta]

\* UCBSampler.update_exploration_step
UCBSampler_update_exploration_step(self) ==
    [self EXCEPT
        !.beta = IF self.beta_decay = "logarithmic_decay"
                 THEN ScaledLog(RDiv(self.c, <<self.t, 1>>), self.t)
                 ELSE IF self.beta_decay = "logarithmic_growth"
                      THEN ScaledLog(<<2, 1>>, self.t + 1)
                 ELSE self.beta,
        !.t = self.t + 1]

\* update_interval_width that leaves self.quantiles as it was
UCBSampler_update_interval_width_stale(self, breach) ==
    LET a == Adapter_update(self.adapter[1], breach)
    IN  [self EXCEPT !.adapter = <<a>>,
                     !.alpha = Adapter_returned(a)]

\* UCBSampler.update_interval_width on a sampler that has an adapter
UCBSampler_update_interval_width(self, breach) ==
    LET a == Adapter_update(self.adapter[1], breach)
    IN  [self EXCEPT !.adapter = <<a>>,
                     !.alpha = Adapter_returned(a),
                     !.quantiles = SymmetricQuantiles(Adapter_returned(a))]

\* constructor arguments tried; adapter_framework = None is "None"
UCBWidths == {Rat(1, 5), Rat(1, 2), Rat(1, 1)}

InitUCB ==
    /\ args \in [beta_decay : {"logarithmic_decay", "logarithmic_growth"},
                 beta : {Rat(1, 1), Rat(5, 1)},
                 c : {Rat(1, 1), Rat(2, 1)},
                 interval_width : UCBWidths,
                 adapter_framework : {"None", "ACI", "DtACI"}]
    /\ phase = "new"
    /\ ucb = None
    /\ NoRest
    /\ ctl = None
    /\ ret = None
    /\ exc = "none"
    /\ breaches = <<>>
    /\ NoQis

\* UCBSampler(...) where DtACI(alpha=self.alpha) raises ValueError
UCBConstructFails ==
    /\ phase = "new"
    /\ args.adapter_framework = "DtACI"
    /\ DtACI_default_invalid(RSub(<<1, 1>>, args.interval_width))
    /\ phase' = "failed"
    /\ exc' = "ValueError"
    /\ UNCHANGED <<args, ctl, ret, breaches, qisVars, ucb, restVars>>

\* UCBSampler(...) returning the sampler
UCBConstruct ==
    /\ phase = "new"
    /\ ~(/\ args.adapter_framework = "DtACI"
         /\ DtACI_default_invalid(RSub(<<1, 1>>, args.interval_width)))
    /\ phase' = "ready"
    /\ ucb' = UCBSampler_init(args.beta_decay, args.beta, args.c,
                              args.interval_width, args.adapter_framework)
    /\ UNCHANGED <<args, ctl, ret, exc, breaches, qisVars, restVars>>

\* update_interval_width(breach) on a sampler built without adapter_framework
\* that returns as if nothing were missing
UCBUpdateNoAdapter_silent ==
    /\ phase = "ready"
    /\ Len(breaches) < MaxSamplerUpdates
    /\ ucb.adapter = <<>>
    /\ \E b \in {0, 1} : breaches' = Append(breaches, b)
    /\ exc' = "none"
    /\ UNCHANGED <<args, phase, ctl, ret, qisVars, ucb, restVars>>

\* update_interval_width(breach) on a sampler built without adapter_framework:
\* self.adapter does not exist
UCBUpdateNoAdapter ==
    /\ phase = "ready"
    /\ Len(breaches) < MaxSamplerUpdates
    /\ ucb.adapter = <<>>
    /\ \E b \in {0, 1} : breaches' = Append(breaches, b)
    /\ exc' = "AttributeError"
    /\ UNCHANGED <<args, phase, ctl, ret, qisVars, ucb, restVars>>

\* update_interval_width(breach) on a sampler with an adapter
UCBUpdateIntervalWidth ==
    /\ phase = "ready"
    /\ Len(breaches) < MaxSamplerUpdates
    /\ ucb.adapter # <<>>
    /\ \E b \in {0, 1} :
          /\ ucb' = UCBSampler_update_interval_width(ucb, b)
          /\ breaches' = Append(breaches, b)
    /\ ret' = None
    /\ exc' = "none"
    /\ UNCHANGED <<args, phase, ctl, qisVars, restVars>>

\* update_exploration_step()
UCBUpdateExplorationStep ==
    /\ phase = "ready"
    /\ Len(calls) < MaxExplorationSteps
    /\ ucb' = UCBSampler_update_exploration_step(ucb)
    /\ calls' = Append(calls, "update_exploration_step")
    /\ ret' = None
    /\ exc' = "none"
    /\ UNCHANGED <<args, phase, ctl, breaches, qisVars, ts, cv, runs, eng>>

NextUCB ==
    \/ UCBConstructFails
    \/ UCBConstruct
    \/ UCBUpdateNoAdapter
    \/ UCBUpdateIntervalWidth
    \/ UCBUpdateExplorationStep

SpecUCB == InitUCB /\ [][NextUCB]_vars

\* ------------------------------------------------------- claims on UCBSampler
\* C10: a UCBSampler with a controller starts with alpha = 1 - interval_width;
\* after every update_interval_width call its alpha is the value the
\* controller's update returned; and at all times fetch_quantiles returns
\* the pair (alpha/2, 1 - alpha/2) of the current alpha.
C10_AlphaAndQuantiles ==
    (phase = "ready" /\ ucb.adapter # <<>>) =>
        LET a    == ucb.adapter[1]
            raw  == RSum([i \in 1..Len(a.weights) |-> RMul(a.weights[i], a.alpha_t[i])])
            last == IF a.cls = "ACI" THEN a.alpha_t
                    ELSE IF raw[1] < 0 THEN <<0, 1>>
                    ELSE IF raw[1] > raw[2] THEN <<1, 1>>
                    ELSE raw
            half == Rat(ucb.alpha[1], 2 * ucb.alpha[2])
        IN  /\ breaches = <<>> =>
                 ucb.alpha = Rat(ucb.interval_width[2] - ucb.interval_width[1],
                                 ucb.interval_width[2])
            /\ breaches # <<>> => ucb.alpha = last
            /\ UCBSampler_fetch_alpha(ucb) = ucb.alpha
            /\ UCBSampler_fetch_quantiles(ucb) =
                 <<half, Rat(half[2] - half[1], half[2])>>

\* C10 witness: the default sampler (interval_width = 0.2) with an ACI
\* controller after update(1), update(0): alpha = 0.8 - 0.002 + 0.008 = 0.806
\* and the quantiles are (0.403, 0.597).
C10_Witness ==
    /\ phase = "ready"
    /\ ucb.adapter # <<>>
    /\ ucb.adapter[1].cls = "ACI"
    /\ breaches = <<1, 0>>
    /\ ucb.alpha = Rat(806, 1000)
    /\ UCBSampler_fetch_quantiles(ucb) = <<Rat(403, 1000), Rat(597, 1000)>>

\* C12: each update_exploration_step call sets beta from the t before the
\* call (c*log(t)/t under "logarithmic_decay", 2*log(t+1) under
\* "logarithmic_growth") and then adds exactly 1 to t; from t = 1, after k
\* calls t = k + 1, and under "logarithmic_decay" the first call sets beta
\* to 0 whatever the constructor's beta and c were.
C12_ExplorationStep ==
    [][(phase = "ready" /\ Len(calls') = Len(calls) + 1) =>
         /\ ucb'.t = ucb.t + 1
         /\ ucb'.t = Len(calls') + 1
         /\ ucb.beta_decay = "logarithmic_decay" =>
               /\ ucb.t = 1 => ucb'.beta = [num |-> <<0, 1>>, k |-> <<0, 1>>, ln |-> 1]
               /\ ucb.t > 1 =>
                     ucb'.beta = [num |-> <<0, 1>>,
                                  k   |-> Rat(ucb.c[1], ucb.c[2] * ucb.t),
                                  ln  |-> ucb.t]
         /\ ucb.beta_decay = "logarithmic_growth" =>
               ucb'.beta = [num |-> <<0, 1>>, k |-> <<2, 1>>, ln |-> ucb.t + 1]
         /\ ucb'.c = ucb.c
         /\ ucb'.beta_decay = ucb.beta_decay]_vars

\* C12 witness: a "logarithmic_decay" sampler built with beta = 5 and c = 2
\* after its first update_exploration_step: beta is 0 and t is 2.
C12_Witness ==
    /\ phase = "ready"
    /\ args.beta_decay = "logarithmic_decay"
    /\ args.beta = <<5, 1>>
    /\ args.c = <<2, 1>>
    /\ calls = <<"update_exploration_step">>
    /\ ucb.t = 2
    /\ ucb.beta = [num |-> <<0, 1>>, k |-> <<0, 1>>, ln |-> 1]

(***************************************************************************)
(* ThompsonSampler                                                         *)
(***************************************************************************)

\* round(x, 2) that drops the digits after the second decimal
Round2_truncate(x) == Rat((100 * x[1]) \div x[2], 100)

\* round(x, 2) for x >= 0: the nearest multiple of 0.01, a tie to the even one
Round2(x) ==
    LET q == (100 * x[1]) \div x[2]
        r == (100 * x[1]) % x[2]
        m == IF 2 * r < x[2] THEN q
             ELSE IF 2 * r > x[2] THEN q + 1
             ELSE IF q % 2 = 0 THEN q ELSE q + 1
    IN  Rat(m, 100)

\* n_quantiles % 2 != 0 read as "never"
ThompsonSampler_invalid_noCheck(n_quantiles) == FALSE

\* the test of ThompsonSampler.__init__: TRUE when it raises ValueError
ThompsonSampler_invalid(n_quantiles) == n_quantiles % 2 # 0

\* [round(i * 1 / (n + 1), 2) for i in range(1, n + 1)]
ThompsonSampler_quantiles(n_quantiles) ==
    [i \in 1..n_quantiles |-> Round2(Rat(i, n_quantiles + 1))]

\* the loop building self.alphas: 1 - (quantiles[-1 - i] - quantiles[0 + i])
ThompsonSampler_alphas(quantiles) ==
    [i \in 1..(Len(quantiles) \div 2) |->
        RSub(<<1, 1>>, RSub(quantiles[Len(quantiles) + 1 - i], quantiles[i]))]

\* number of adapters appended before a DtACI(alpha=alpha) raises; all of
\* them when none does
ThompsonSampler_built(alphas, adapter_framework) ==
    LET raising == {i \in 1..Len(alphas) :
                      adapter_framework = "DtACI" /\ DtACI_default_invalid(alphas[i])}
    IN  IF raising = {} THEN Len(alphas)
        ELSE (CHOOSE i \in raising : \A j \in raising : i <= j) - 1

\* TRUE when an adapter's constructor raises ValueError inside __init__
ThompsonSampler_adapter_raises(n_quantiles, adapter_framework) ==
    LET alphas == ThompsonSampler_alphas(ThompsonSampler_quantiles(n_quantiles))
    IN  /\ adapter_framework = "DtACI"
        /\ ThompsonSampler_built(alphas, adapter_framework) < Len(alphas)

\* ThompsonSampler.__init__ past the parity test: the attributes it has set
\* when it returns or when an adapter's constructor raises. has_adapters says
\* whether the attribute adapters exists.
ThompsonSampler_init(n_quantiles, adapter_framework) ==
    LET quantiles == ThompsonSampler_quantiles(n_quantiles)
        alphas    == ThompsonSampler_alphas(quantiles)
        built     == ThompsonSampler_built(alphas, adapter_framework)
    IN  [n_quantiles  |-> n_quantiles,
         quantiles    |-> quantiles,
         alphas       |-> alphas,
         has_adapters |-> adapter_framework \in {"ACI", "DtACI"},
         adapters     |-> IF adapter_framework = "ACI"
                          THEN [i \in 1..built |-> ACI_default(alphas[i])]
                          ELSE IF adapter_framework = "DtACI"
                               THEN [i \in 1..built |-> DtACI_default(alphas[i])]
                          ELSE <<>>]

\* ThompsonSampler.fetch_alphas
ThompsonSampler_fetch_alphas(self) == self.alphas

\* ThompsonSampler.fetch_quantiles: the intervals of the sequence it returns
ThompsonSampler_fetch_quantiles(self) == from_flattened_list(self.quantiles)

\* [alpha / 2, 1 - alpha / 2] of every alpha, in order
ThompsonSampler_extend(alphas) ==
    [i \in 1..(2 * Len(alphas)) |-> SymmetricQuantiles(alphas[(i + 1) \div 2])[2 - (i % 2)]]

\* zip(self.adapters, breaches) stops at the shorter of the two
ZipLen(adapters, breach_list) ==
    IF Len(adapters) < Len(breach_list) THEN Len(adapters) ELSE Len(breach_list)

\* update_interval_width that hands adapter i the breach of the pair mirrored
\* to it
ThompsonSampler_update_interval_width_crossed(self, breach_list) ==
    LET k        == ZipLen(self.adapters, breach_list)
        adapters == [i \in 1..Len(self.adapters) |->
                        IF i <= k
                        THEN Adapter_update(self.adapters[i], breach_list[k + 1 - i])
                        ELSE self.adapters[i]]
        alphas   == [i \in 1..k |-> Adapter_returned(adapters[i])]
    IN  [self EXCEPT !.adapters  = adapters,
                     !.alphas    = alphas,
                     !.quantiles = Sort(ThompsonSampler_extend(alphas))]

\* ThompsonSampler.update_interval_width on a sampler that has adapters
ThompsonSampler_update_interval_width(self, breach_list) ==
    LET k        == ZipLen(self.adapters, breach_list)
        adapters == [i \in 1..Len(self.adapters) |->
                        IF i <= k
                        THEN Adapter_update(self.adapters[i], breach_list[i])
                        ELSE self.adapters[i]]
        alphas   == [i \in 1..k |-> Adapter_returned(adapters[i])]
    IN  [self EXCEPT !.adapters  = adapters,
                     !.alphas    = alphas,
                     !.quantiles = Sort(ThompsonSampler_extend(alphas))]

\* n_quantiles tried beyond 0..MaxThompsonN: every even count up to 102
LargeN == {2 * k : k \in 3..51}

\* the large samplers that are also updated
UpdatedLargeN == {98, 100, 102}

\* breach lists tried on a sampler of k adapters: every list of 0s and 1s of
\* length at most k for the small samplers, the two constant lists of length
\* k for the updated large ones
BreachLists(k) ==
    IF 2 * k <= MaxThompsonN THEN SeqsUpTo({0, 1}, k)
    ELSE IF 2 * k \in UpdatedLargeN THEN {[i \in 1..k |-> b] : b \in {0, 1}}
    ELSE {}

\* The sampler is the only element of ts once __init__ has set an attribute.
InitTS ==
    /\ args \in [n_quantiles : (0..MaxThompsonN) \cup LargeN,
                 adapter_framework : {"None", "ACI", "DtACI"}]
    /\ phase = "new"
    /\ ts = None
    /\ calls = <<>>
    /\ cv = None
    /\ runs = <<>>
    /\ eng = None
    /\ ucb = None
    /\ ctl = None
    /\ ret = None
    /\ exc = "none"
    /\ breaches = <<>>
    /\ NoQis

tsRest == <<args, ctl, ret, qisVars, ucb, calls, cv, runs, eng>>

\* ThompsonSampler(n_quantiles=odd): ValueError from the parity test
ThompsonConstructOdd ==
    /\ phase = "new"
    /\ ThompsonSampler_invalid(args.n_quantiles)
    /\ phase' = "failed"
    /\ exc' = "ValueError"
    /\ UNCHANGED <<ts, breaches, tsRest>>

\* ThompsonSampler(...) in which DtACI(alpha=alpha) raises ValueError
ThompsonConstructAdapterFails ==
    /\ phase = "new"
    /\ ~ThompsonSampler_invalid(args.n_quantiles)
    /\ ThompsonSampler_adapter_raises(args.n_quantiles, args.adapter_framework)
    /\ phase' = "failed"
    /\ exc' = "ValueError"
    /\ ts' = <<ThompsonSampler_init(args.n_quantiles, args.adapter_framework)>>
    /\ UNCHANGED <<breaches, tsRest>>

\* ThompsonSampler(...) returning the sampler
ThompsonConstruct ==
    /\ phase = "new"
    /\ ~ThompsonSampler_invalid(args.n_quantiles)
    /\ ~ThompsonSampler_adapter_raises(args.n_quantiles, args.adapter_framework)
    /\ phase' = "ready"
    /\ ts' = <<ThompsonSampler_init(args.n_quantiles, args.adapter_framework)>>
    /\ UNCHANGED <<exc, breaches, tsRest>>

\* update_interval_width(breaches) on a sampler built without
\* adapter_framework: self.adapters does not exist
ThompsonUpdateNoAdapters ==
    /\ phase = "ready"
    /\ Len(breaches) < MaxThompsonUpdates
    /\ ~ts[1].has_adapters
    /\ \E b \in BreachLists(Len(ts[1].alphas)) : breaches' = Append(breaches, b)
    /\ exc' = "AttributeError"
    /\ UNCHANGED <<phase, ts, tsRest>>

\* update_interval_width(breaches)
ThompsonUpdateIntervalWidth ==
    /\ phase = "ready"
    /\ Len(breaches) < MaxThompsonUpdates
    /\ ts[1].has_adapters
    /\ \E b \in BreachLists(Len(ts[1].adapters)) :
          /\ breaches' = Append(breaches, b)
          /\ ts' = <<ThompsonSampler_update_interval_width(ts[1], b)>>
    /\ exc' = "none"
    /\ UNCHANGED <<phase, tsRest>>

NextTS ==
    \/ ThompsonConstructOdd
    \/ ThompsonConstructAdapterFails
    \/ ThompsonConstruct
    \/ ThompsonUpdateNoAdapters
    \/ ThompsonUpdateIntervalWidth

SpecTS == InitTS /\ [][NextTS]_vars

(***************************************************************************)
(* Both samplers: the constructor arguments say which one is built         *)
(***************************************************************************)
IsUCBSampler == "interval_width" \in DOMAIN args

IsThompsonSampler == "n_quantiles" \in DOMAIN args

InitSamplers == InitUCB \/ InitTS

NextSamplers ==
    \/ IsUCBSampler /\ UCBConstructFails
    \/ IsUCBSampler /\ UCBConstruct
    \/ IsUCBSampler /\ UCBUpdateNoAdapter
    \/ IsUCBSampler /\ UCBUpdateIntervalWidth
    \/ IsUCBSampler /\ UCBUpdateExplorationStep
    \/ IsThompsonSampler /\ ThompsonConstructOdd
    \/ IsThompsonSampler /\ ThompsonConstructAdapterFails
    \/ IsThompsonSampler /\ ThompsonConstruct
    \/ IsThompsonSampler /\ ThompsonUpdateNoAdapters
    \/ IsThompsonSampler /\ ThompsonUpdateIntervalWidth

SpecSamplers == InitSamplers /\ [][NextSamplers]_vars

\* ------------------------------------------------------ claims on both samplers
\* 0 <= lower <= upper <= 1
InUnitRange(qi) ==
    /\ 0 <= qi[1][1]
    /\ RLe(qi[1], qi[2])
    /\ qi[2][1] <= qi[2][2]

\* C11: the QuantileInterval UCBSampler.fetch_quantiles returns, and every
\* one in the sequence ThompsonSampler.fetch_quantiles returns, satisfies
\* 0 <= lower <= upper <= 1 after construction and after any sequence of
\* update_interval_width calls, with no controller, ACI or DtACI.
C11_IntervalsInUnitRange ==
    phase = "ready" =>
        IF IsUCBSampler THEN InUnitRange(UCBSampler_fetch_quantiles(ucb))
        ELSE LET seq == ThompsonSampler_fetch_quantiles(ts[1])
             IN  \A i \in 1..Len(seq) : InUnitRange(seq[i])

\* C11 witness: a 4-level ThompsonSampler with DtACI controllers after
\* update_interval_width([1, 1]) and one more call holds two intervals that
\* are no longer the constructed ones.
C11_Witness ==
    /\ phase = "ready"
    /\ IsThompsonSampler
    /\ args.n_quantiles = 4
    /\ args.adapter_framework = "DtACI"
    /\ Len(breaches) = 2
    /\ breaches[1] = <<1, 1>>
    /\ Len(ThompsonSampler_fetch_quantiles(ts[1])) = 2
    /\ ts[1].quantiles # ThompsonSampler_quantiles(4)

\* -------------------------------------------------- claims on ThompsonSampler
\* TRUE when the constructor has returned and no update was made since
Constructed == phase = "ready" /\ breaches = <<>>

\* every pair's alpha lies strictly between 0 and 1
AlphasInside(alphas) ==
    \A i \in 1..Len(alphas) :
        0 < alphas[i][1] /\ alphas[i][1] < alphas[i][2]

\* C13: a ThompsonSampler with an odd n_quantiles fails with ValueError
\* before any level, alpha or controller exists. An even n_quantiles is
\* accepted with no framework and with ACI; with DtACI it is accepted exactly
\* when every pair's alpha lies strictly inside (0, 1), which holds for every
\* even count tried up to 98 and fails for 100 and 102.
C13_ParityCheck ==
    phase # "new" =>
        /\ args.n_quantiles % 2 = 1 =>
              phase = "failed" /\ exc = "ValueError" /\ ts = <<>>
        /\ args.n_quantiles % 2 = 0 =>
              /\ Len(ts) = 1
              /\ breaches = <<>> =>
                    (phase = "failed" <=>
                        /\ args.adapter_framework = "DtACI"
                        /\ ~AlphasInside(ts[1].alphas))
              /\ phase = "failed" => exc = "ValueError"
              /\ args.n_quantiles <= 98 => phase = "ready"
              /\ args.adapter_framework = "DtACI" /\ args.n_quantiles >= 100 =>
                    phase = "failed"

\* C13 witness: ThompsonSampler(n_quantiles=3) has raised ValueError and
\* nothing was created.
C13_Witness ==
    /\ phase = "failed"
    /\ args.n_quantiles = 3
    /\ exc = "ValueError"
    /\ ts = <<>>

\* C13 as stated: odd counts fail with ValueError before anything exists and
\* every even count is accepted.
C13_EveryEvenAccepted ==
    phase # "new" =>
        /\ args.n_quantiles % 2 = 1 =>
              phase = "failed" /\ exc = "ValueError" /\ ts = <<>>
        /\ args.n_quantiles % 2 = 0 => phase = "ready"

\* level i of an n-level sampler is the multiple of 0.01 nearest to i/(n+1)
LevelsAsStated(self) ==
    /\ Len(self.quantiles) = self.n_quantiles
    /\ \A i \in 1..self.n_quantiles :
          LET q == self.quantiles[i]
              m == q[1] * (100 \div q[2])
          IN  /\ 100 % q[2] = 0
              /\ 2 * Abs(m * (self.n_quantiles + 1) - 100 * i) <= self.n_quantiles + 1

\* alpha i is 1 - (i-th largest level - i-th smallest level), outer pair first
AlphasAsStated(self) ==
    /\ Len(self.alphas) = self.n_quantiles \div 2
    /\ \A i \in 1..Len(self.alphas) :
          LET hi == self.quantiles[self.n_quantiles + 1 - i]
              lo == self.quantiles[i]
          IN  self.alphas[i] = Rat(hi[2] * lo[2] - hi[1] * lo[2] + lo[1] * hi[2],
                                   hi[2] * lo[2])

\* one fresh controller of the framework's class per pair, on the pair's alpha
ControllersAsStated(self, adapter_framework) ==
    /\ self.has_adapters <=> adapter_framework \in {"ACI", "DtACI"}
    /\ ~self.has_adapters => self.adapters = <<>>
    /\ self.has_adapters =>
          /\ Len(self.adapters) = Len(self.alphas)
          /\ \A i \in 1..Len(self.adapters) :
                /\ self.adapters[i].cls = adapter_framework
                /\ self.adapters[i].alpha = self.alphas[i]
                /\ adapter_framework = "ACI" =>
                      self.adapters[i].alpha_t = self.alphas[i]
                /\ adapter_framework = "DtACI" =>
                      \A e \in 1..Len(self.adapters[i].alpha_t) :
                          self.adapters[i].alpha_t[e] = self.alphas[i]

StrictlyIncreasing(alphas) ==
    \A i \in 1..(Len(alphas) - 1) :
        RLt(alphas[i], alphas[i + 1])

NonDecreasing(alphas) ==
    \A i \in 1..(Len(alphas) - 1) :
        RLe(alphas[i], alphas[i + 1])

\* C14: a ThompsonSampler constructed with even n holds the n levels i/(n+1)
\* rounded to 2 decimals (n = 4: [0.2, 0.4, 0.6, 0.8]), n/2 alphas
\* 1 - (i-th largest - i-th smallest level) listed outer pair first, and with
\* a framework one controller per pair initialised with the pair's alpha. The
\* alphas never decrease from the outer to the inner pair, and increase
\* strictly for n up to 100.
C14_Construction ==
    Constructed =>
        /\ args.n_quantiles % 2 = 0
        /\ ts[1].n_quantiles = args.n_quantiles
        /\ LevelsAsStated(ts[1])
        /\ args.n_quantiles = 4 =>
              ts[1].quantiles = <<<<1, 5>>, <<2, 5>>, <<3, 5>>, <<4, 5>>>>
        /\ AlphasAsStated(ts[1])
        /\ ThompsonSampler_fetch_alphas(ts[1]) = ts[1].alphas
        /\ ControllersAsStated(ts[1], args.adapter_framework)
        /\ NonDecreasing(ts[1].alphas)
        /\ args.n_quantiles <= 100 => StrictlyIncreasing(ts[1].alphas)

\* C14 witness: ThompsonSampler(n_quantiles=4, adapter_framework="DtACI"):
\* alphas [0.4, 0.8] and two controllers.
C14_Witness ==
    /\ Constructed
    /\ args.n_quantiles = 4
    /\ args.adapter_framework = "DtACI"
    /\ ts[1].alphas = <<<<2, 5>>, <<4, 5>>>>
    /\ Len(ts[1].adapters) = 2

\* C14 as stated: the alphas of every constructed sampler increase strictly
\* from the outer pair to the inner pair.
C14_AlphasStrictlyIncreasing ==
    Constructed =>
        /\ LevelsAsStated(ts[1])
        /\ AlphasAsStated(ts[1])
        /\ ControllersAsStated(ts[1], args.adapter_framework)
        /\ StrictlyIncreasing(ts[1].alphas)

\* number of entries of the list s equal to v
Count(v, s) == Cardinality({i \in 1..Len(s) : s[i] = v})

\* C15: update_interval_width(breaches) with one breach per pair updates
\* controller i once, with breaches[i] only; sets alphas to the values the
\* controllers returned, in controller order; and sets quantiles to the
\* ascending sort of every alpha_i/2 and 1 - alpha_i/2, so the sampler keeps
\* n_quantiles levels and n_quantiles/2 alphas.
C15_UpdateIntervalWidth ==
    [][(/\ phase = "ready"
        /\ Len(breaches') = Len(breaches) + 1
        /\ ts[1].has_adapters
        /\ Len(breaches'[Len(breaches')]) = Len(ts[1].adapters)) =>
          LET b    == breaches'[Len(breaches')]
              old  == ts[1]
              new  == ts'[1]
              k    == Len(old.adapters)
              half == [i \in 1..k |-> Rat(new.alphas[i][1], 2 * new.alphas[i][2])]
              all  == [i \in 1..(2 * k) |->
                          IF i <= k THEN half[i]
                          ELSE Rat(half[i - k][2] - half[i - k][1], half[i - k][2])]
          IN  /\ Len(new.adapters) = k
              /\ \A i \in 1..k :
                    new.adapters[i] = Adapter_update(old.adapters[i], b[i])
              /\ Len(new.alphas) = k
              /\ \A i \in 1..k : new.alphas[i] = Adapter_returned(new.adapters[i])
              /\ Len(new.quantiles) = 2 * k
              /\ NonDecreasing(new.quantiles)
              /\ \A i \in 1..(2 * k) :
                    Count(all[i], new.quantiles) = Count(all[i], all)
              /\ new.n_quantiles = old.n_quantiles
              /\ Len(new.quantiles) = new.n_quantiles
              /\ 2 * Len(new.alphas) = new.n_quantiles]_vars

\* C15 witness: a 4-level sampler with DtACI controllers after
\* update_interval_width([0, 1]): the two controllers moved apart.
C15_Witness ==
    /\ phase = "ready"
    /\ args.n_quantiles = 4
    /\ args.adapter_framework = "DtACI"
    /\ breaches = <<<<0, 1>>>>
    /\ Len(ts[1].quantiles) = 4
    /\ ts[1].adapters[1] = Adapter_update(DtACI_default(<<2, 5>>), 0)
    /\ ts[1].adapters[2] = Adapter_update(DtACI_default(<<4, 5>>), 1)

(***************************************************************************)
(* average_scores_across_folds                                             *)
(***************************************************************************)

\* The loop over zip(scored_configurations, scores) from pair i on, with the
\* three lists built so far. list.index gives the first position holding an
\* equal configuration.
RECURSIVE AggregateFrom(_, _, _, _, _, _)
AggregateFrom(i, scored_configurations, scores, aggregated_configurations, aggregated_scores, fold_counts) ==
    IF i > Len(scored_configurations) \/ i > Len(scores)
    THEN [configurations |-> aggregated_configurations,
          scores         |-> aggregated_scores,
          counts         |-> fold_counts]
    ELSE LET configuration == scored_configurations[i]
             found == {j \in 1..Len(aggregated_configurations) :
                          aggregated_configurations[j] = configuration}
         IN  IF found # {}
             THEN LET index == CHOOSE j \in found : \A l \in found : j <= l
                  IN  AggregateFrom(i + 1, scored_configurations, scores,
                          aggregated_configurations,
                          [aggregated_scores EXCEPT
                              ![index] = RAdd(aggregated_scores[index], scores[i])],
                          [fold_counts EXCEPT ![index] = fold_counts[index] + 1])
             ELSE AggregateFrom(i + 1, scored_configurations, scores,
                          Append(aggregated_configurations, configuration),
                          Append(aggregated_scores, scores[i]),
                          Append(fold_counts, 1))

\* average_scores_across_folds without the division by the fold counts
average_scores_across_folds_noDivide(scored_configurations, scores) ==
    LET a == AggregateFrom(1, scored_configurations, scores, <<>>, <<>>, <<>>)
    IN  [configurations |-> a.configurations, scores |-> a.scores]

\* average_scores_across_folds: the pair of lists it returns
average_scores_across_folds(scored_configurations, scores) ==
    LET a == AggregateFrom(1, scored_configurations, scores, <<>>, <<>>, <<>>)
    IN  [configurations |-> a.configurations,
         scores         |-> [i \in 1..Len(a.scores) |->
                                RDiv(a.scores[i], <<a.counts[i], 1>>)]]

\* configurations (parameter dicts) and scores the lists are drawn from
AvgConfigurations == {[max_depth |-> d] : d \in 1..3}

AvgScores == {Rat(1, 1), Rat(2, 1), Rat(4, 1)}

InitAvg ==
    /\ \E k \in 0..MaxScored :
          args \in [scored_configurations : [1..k -> AvgConfigurations],
                    scores : [1..k -> AvgScores]]
    /\ phase = "new"
    /\ ret = None
    /\ exc = "none"
    /\ ctl = None
    /\ breaches = <<>>
    /\ NoQis
    /\ ucb = None
    /\ NoRest

\* average_scores_across_folds(scored_configurations, scores)
AverageScoresAcrossFolds ==
    /\ phase = "new"
    /\ phase' = "done"
    /\ ret' = average_scores_across_folds(args.scored_configurations, args.scores)
    /\ UNCHANGED <<args, ctl, exc, breaches, qisVars, ucb, restVars>>

NextAvg == AverageScoresAcrossFolds

SpecAvg == InitAvg /\ [][NextAvg]_vars

\* --------------------------------------- claims on average_scores_across_folds
\* sum of the scores at the positions in S
RECURSIVE SumAt(_, _)
SumAt(S, scores) ==
    IF S = {} THEN <<0, 1>>
    ELSE LET i == CHOOSE j \in S : TRUE
         IN  RAdd(scores[i], SumAt(S \ {i}, scores))

\* positions of the input that hold configuration c
PositionsOf(c) ==
    {i \in 1..Len(args.scored_configurations) : args.scored_configurations[i] = c}

\* first position of the input that holds configuration c
FirstPosition(c) == CHOOSE i \in PositionsOf(c) : \A j \in PositionsOf(c) : i <= j

\* C16: average_scores_across_folds returns one entry per distinct
\* configuration of the input, in order of first appearance, each with the
\* arithmetic mean of the scores of the input pairs holding that
\* configuration; identical configuration+score pairs collapse into one entry
\* with that score.
C16_AverageAcrossFolds ==
    phase = "done" =>
        LET out == ret.configurations
        IN  /\ Len(ret.scores) = Len(out)
            /\ {out[i] : i \in 1..Len(out)} =
                  {args.scored_configurations[i] : i \in 1..Len(args.scored_configurations)}
            /\ \A i \in 1..Len(out), j \in 1..Len(out) :
                  i < j => FirstPosition(out[i]) < FirstPosition(out[j])
            /\ \A i \in 1..Len(out) :
                  LET sum == SumAt(PositionsOf(out[i]), args.scores)
                  IN  ret.scores[i] =
                         Rat(sum[1], sum[2] * Cardinality(PositionsOf(out[i])))
            /\ (/\ Len(args.scores) >= 2
                /\ \A i \in 1..Len(args.scores) :
                      /\ args.scored_configurations[i] = args.scored_configurations[1]
                      /\ args.scores[i] = args.scores[1]) =>
                  /\ out = <<args.scored_configurations[1]>>
                  /\ ret.scores = <<args.scores[1]>>

\* C16 witness: the pairs (b, 4), (a, 1), (b, 1) give [b, a] with scores
\* [5/2, 1].
C16_Witness ==
    /\ phase = "done"
    /\ args.scored_configurations =
          <<[max_depth |-> 2], [max_depth |-> 1], [max_depth |-> 2]>>
    /\ args.scores = <<<<4, 1>>, <<1, 1>>, <<1, 1>>>>
    /\ ret.configurations = <<[max_depth |-> 2], [max_depth |-> 1]>>
    /\ ret.scores = <<<<5, 2>>, <<1, 1>>>>

(***************************************************************************)
(* cross_validate_configurations: the score of one configuration on one    *)
(* fold, from the validation targets and the fitted model's predictions    *)
(***************************************************************************)

\* sklearn's mean_pinball_loss(y_true, y_pred, alpha): the mean over the rows
\* of alpha * max(y - pred, 0) + (1 - alpha) * max(pred - y, 0)
mean_pinball_loss(y_true, y_pred, alpha) ==
    RDiv(RSum([i \in 1..Len(y_true) |->
                 LET diff == RSub(y_true[i], y_pred[i])
                 IN  IF RLe(<<0, 1>>, diff) THEN RMul(alpha, diff)
                     ELSE RMul(RSub(<<1, 1>>, alpha), RNeg(diff))]),
         <<Len(y_true), 1>>)

\* sklearn's metrics.mean_squared_error(y_true, y_pred)
mean_squared_error(y_true, y_pred) ==
    RDiv(RSum([i \in 1..Len(y_true) |->
                 RMul(RSub(y_true[i], y_pred[i]), RSub(y_true[i], y_pred[i]))]),
         <<Len(y_true), 1>>)

\* model.predict(X_val)[:, c] for the 0-based column c
Column(y_pred, c) == [i \in 1..Len(y_pred) |-> y_pred[i][c + 1]]

\* TRUE when the body of the try raises: quantiles[1] or column 1 is missing
fold_score_raises(is_quantile, quantiles, Y_val, y_pred) ==
    /\ is_quantile
    /\ \/ Len(quantiles) < 2
       \/ \E i \in 1..Len(y_pred) : Len(y_pred[i]) < 2

\* the body of the try when it does not raise: pinball loss of quantiles[0]
\* on column 0 and of quantiles[1] on column 1, averaged; the mean squared
\* error for a point estimator
fold_score(is_quantile, quantiles, Y_val, y_pred) ==
    IF is_quantile
    THEN RDiv(RAdd(mean_pinball_loss(Y_val, Column(y_pred, 0), quantiles[1]),
                   mean_pinball_loss(Y_val, Column(y_pred, 1), quantiles[2])),
              <<2, 1>>)
    ELSE mean_squared_error(Y_val, Column(y_pred, 0))

\* quantile lists tried: one level, a pair, the UCB list [lower, 0.5, upper]
\* and the 4-level Thompson list
QuantileLists ==
    {<<Rat(1, 2)>>,
     <<Rat(1, 10), Rat(9, 10)>>,
     <<Rat(1, 10), Rat(1, 2), Rat(9, 10)>>,
     <<Rat(1, 5), Rat(2, 5), Rat(3, 5), Rat(4, 5)>>}

TargetValues == {Rat(0, 1), Rat(1, 1), Rat(2, 1)}

PredictedValues == {Rat(0, 1), Rat(2, 1)}

\* a quantile estimator predicts one column per level, a point estimator one
InitScore ==
    /\ \E n \in 1..MaxValRows, is_quantile \in BOOLEAN, quantiles \in QuantileLists :
          args \in [is_quantile : {is_quantile},
                    quantiles : {quantiles},
                    Y_val : [1..n -> TargetValues],
                    y_pred : [1..n -> [1..(IF is_quantile THEN Len(quantiles) ELSE 1)
                                          -> PredictedValues]]]
    /\ phase = "new"
    /\ ret = None
    /\ exc = "none"
    /\ ctl = None
    /\ breaches = <<>>
    /\ NoQis
    /\ ucb = None
    /\ NoRest

\* the try: the score is appended
FoldScored ==
    /\ phase = "new"
    /\ ~fold_score_raises(args.is_quantile, args.quantiles, args.Y_val, args.y_pred)
    /\ phase' = "scored"
    /\ ret' = fold_score(args.is_quantile, args.quantiles, args.Y_val, args.y_pred)
    /\ UNCHANGED <<args, ctl, exc, breaches, qisVars, ucb, restVars>>

\* the except: a warning is logged and nothing is appended
FoldScoringFailed ==
    /\ phase = "new"
    /\ fold_score_raises(args.is_quantile, args.quantiles, args.Y_val, args.y_pred)
    /\ phase' = "dropped"
    /\ exc' = "IndexError caught"
    /\ UNCHANGED <<args, ctl, ret, breaches, qisVars, ucb, restVars>>

NextScore == FoldScored \/ FoldScoringFailed

SpecScore == InitScore /\ [][NextScore]_vars

\* --------------------------------------------------- claims on the fold score
\* pinball loss of level alpha on the 1-based column c of the predictions
PinballOf(alpha, c) ==
    LET n     == Len(args.Y_val)
        terms == [i \in 1..n |->
                    LET y == args.Y_val[i]
                        f == args.y_pred[i][c]
                    IN  IF RLe(f, y) THEN RMul(alpha, RSub(y, f))
                        ELSE RMul(RSub(<<1, 1>>, alpha), RSub(f, y))]
    IN  RDiv(RSum(terms), <<n, 1>>)

\* C18: for a quantile architecture the score of a configuration on a fold is
\* the average of the pinball loss of the lowest supplied level on its
\* prediction column and the pinball loss of the highest supplied level on
\* its prediction column, for every supplied list.
C18_LowestAndHighestLevel ==
    (phase = "scored" /\ args.is_quantile) =>
        LET k == Len(args.quantiles)
        IN  ret = RDiv(RAdd(PinballOf(args.quantiles[1], 1),
                            PinballOf(args.quantiles[k], k)),
                       <<2, 1>>)

(***************************************************************************)
(* Tuning: _tune_component_estimator / QuantileConformalRegression._tune   *)
(* and the loop of cross_validate_configurations                           *)
(***************************************************************************)

\* confopt.config's QUANTILE_ESTIMATOR_ARCHITECTURES, for the two
\* architectures modelled: KNN_NAME (point) and QGBM_NAME (quantile)
QUANTILE_ESTIMATOR_ARCHITECTURES == {"QGBM_NAME"}

\* SEARCH_MODEL_TUNING_SPACE[estimator_architecture], as configurations: all
\* three of KNN_NAME, and of QGBM_NAME's grid the one made of the first value
\* of every parameter
SEARCH_MODEL_TUNING_SPACE(estimator_architecture) ==
    IF estimator_architecture = "KNN_NAME"
    THEN {[n_neighbors |-> 1], [n_neighbors |-> 2], [n_neighbors |-> 3]}
    ELSE {[learning_rate |-> <<1, 20>>, n_estimators |-> 25,
           min_samples_split |-> 2, min_samples_leaf |-> 1, max_depth |-> 2]}

\* SEARCH_MODEL_DEFAULT_CONFIGURATIONS[estimator_architecture]
SEARCH_MODEL_DEFAULT_CONFIGURATIONS(estimator_architecture) ==
    IF estimator_architecture = "KNN_NAME" THEN [n_neighbors |-> 2]
    ELSE [learning_rate |-> <<1, 10>>, n_estimators |-> 50,
          min_samples_split |-> 2, min_samples_leaf |-> 2, max_depth |-> 3]

\* get_tuning_configurations(parameter_grid, n_configurations, random_state):
\* the lists it can return, a random subsample of the grid without
\* duplicates, of at most n_configurations entries
get_tuning_configurations(parameter_grid, n_configurations) ==
    {l \in SeqsUpTo(parameter_grid, n_configurations) :
        \A i \in 1..Len(l), j \in 1..Len(l) : i # j => l[i] # l[j]}

\* scores.index(min(scores)) taking the last position of the minimum
IndexOfMin_last(scores) ==
    CHOOSE i \in 1..Len(scores) :
        /\ \A j \in 1..Len(scores) : RLe(scores[i], scores[j])
        /\ \A j \in 1..Len(scores) : scores[j] = scores[i] => j <= i

\* scores.index(min(scores)): the first position holding the least score
IndexOfMin(scores) ==
    CHOOSE i \in 1..Len(scores) :
        /\ \A j \in 1..Len(scores) : RLe(scores[i], scores[j])
        /\ \A j \in 1..Len(scores) : scores[j] = scores[i] => i <= j

\* scores a fitted model can get on a fold
FoldScores == {Rat(1, 1), Rat(2, 1)}

\* _tune passes the sampler's quantiles, _tune_component_estimator passes
\* quantiles=None
InitCV ==
    /\ args \in [method : {"_tune_component_estimator", "_tune"},
                 estimator_architecture : {"KNN_NAME", "QGBM_NAME"},
                 n_searches : {0, 1, 2},
                 k_fold_splits : {2}]
    /\ phase = "new"
    /\ cv = None
    /\ ret = None
    /\ exc = "none"
    /\ ctl = None
    /\ breaches = <<>>
    /\ NoQis
    /\ ucb = None
    /\ ts = None
    /\ calls = <<>>
    /\ runs = <<>>
    /\ eng = None

cvRest == <<args, ctl, breaches, qisVars, ucb, ts, calls, runs, eng>>

\* the position after (fold, index) in the two nested loops
NextPosition(c) ==
    IF c.index < Len(c.configurations)
    THEN [c EXCEPT !.index = c.index + 1]
    ELSE [c EXCEPT !.fold = c.fold + 1, !.index = 1]

\* TRUE while the loops have a (fold, configuration) left
InLoop == phase = "cv" /\ cv.fold <= args.k_fold_splits

\* TRUE when the quantile branch raises ValueError for quantiles=None
QuantilesMissing ==
    /\ args.estimator_architecture \in QUANTILE_ESTIMATOR_ARCHITECTURES
    /\ args.method = "_tune_component_estimator"

\* get_tuning_configurations, append of the default configuration, and the
\* first lines of cross_validate_configurations
TuneStart ==
    /\ phase = "new"
    /\ \E sampled \in get_tuning_configurations(
                          SEARCH_MODEL_TUNING_SPACE(args.estimator_architecture),
                          args.n_searches) :
          cv' = [configurations |->
                     Append(sampled,
                            SEARCH_MODEL_DEFAULT_CONFIGURATIONS(args.estimator_architecture)),
                 fold |-> 1,
                 index |-> 1,
                 scored_configurations |-> <<>>,
                 scores |-> <<>>,
                 raised |-> <<>>,
                 cross_fold |-> [configurations |-> <<>>, scores |-> <<>>]]
    /\ phase' = "cv"
    /\ UNCHANGED <<ret, exc, cvRest>>

\* raise ValueError("'quantiles' cannot be None ..."), outside the try
CVQuantilesMissing ==
    /\ InLoop
    /\ QuantilesMissing
    /\ phase' = "failed"
    /\ exc' = "ValueError"
    /\ UNCHANGED <<cv, ret, cvRest>>

\* model.fit or model.predict raises: the two calls stand before the try,
\* so the exception leaves cross_validate_configurations
CVFitRaises ==
    /\ InLoop
    /\ ~QuantilesMissing
    /\ cv' = [cv EXCEPT !.raised = Append(@, <<cv.fold, cv.index, "fit">>)]
    /\ phase' = "failed"
    /\ exc' = "EstimatorError"
    /\ UNCHANGED <<ret, cvRest>>

\* the scoring inside the try raises: warning, continue
CVScoringRaises ==
    /\ InLoop
    /\ ~QuantilesMissing
    /\ cv' = [NextPosition(cv) EXCEPT
                 !.raised = Append(@, <<cv.fold, cv.index, "scoring">>)]
    /\ UNCHANGED <<phase, ret, exc, cvRest>>

\* the configuration is fitted and scored: both lists grow
CVScored ==
    /\ InLoop
    /\ ~QuantilesMissing
    /\ \E score \in FoldScores :
          cv' = [NextPosition(cv) EXCEPT
                    !.scored_configurations = Append(@, cv.configurations[cv.index]),
                    !.scores = Append(@, score)]
    /\ UNCHANGED <<phase, ret, exc, cvRest>>

\* after the loops: average_scores_across_folds and return
CVReturn ==
    /\ phase = "cv"
    /\ cv.fold > args.k_fold_splits
    /\ cv' = [cv EXCEPT !.cross_fold =
                 average_scores_across_folds(cv.scored_configurations, cv.scores)]
    /\ phase' = "validated"
    /\ UNCHANGED <<ret, exc, cvRest>>

\* min(scores) of an empty list raises ValueError
TuneNothingScored ==
    /\ phase = "validated"
    /\ cv.cross_fold.scores = <<>>
    /\ phase' = "failed"
    /\ exc' = "ValueError"
    /\ UNCHANGED <<cv, ret, cvRest>>

\* best_configuration = scored_configurations[scores.index(min(scores))]
TuneReturn ==
    /\ phase = "validated"
    /\ cv.cross_fold.scores # <<>>
    /\ ret' = cv.cross_fold.configurations[IndexOfMin(cv.cross_fold.scores)]
    /\ phase' = "done"
    /\ UNCHANGED <<cv, exc, cvRest>>

NextCV ==
    \/ TuneStart
    \/ CVQuantilesMissing
    \/ CVFitRaises
    \/ CVScoringRaises
    \/ CVScored
    \/ CVReturn
    \/ TuneNothingScored
    \/ TuneReturn

SpecCV == InitCV /\ [][NextCV]_vars

\* ------------------------------------ claims on cross-validation and tuning
\* C17: when a configuration's fit or its scoring raises on some fold, the
\* failure is recovered locally: nothing is appended for that configuration
\* and fold, and the loops go on with the next configuration or fold.
C17_FailuresRecoveredLocally ==
    [][(phase = "cv" /\ Len(cv'.raised) = Len(cv.raised) + 1) =>
          /\ phase' = "cv"
          /\ cv'.scored_configurations = cv.scored_configurations
          /\ cv'.scores = cv.scores
          /\ <<cv'.fold, cv'.index>> =
                IF cv.index < Len(cv.configurations)
                THEN <<cv.fold, cv.index + 1>>
                ELSE <<cv.fold + 1, 1>>]_vars

\* position of the first entry of the list l equal to c
FirstIn(c, l) ==
    CHOOSE i \in 1..Len(l) : l[i] = c /\ \A j \in 1..(i - 1) : l[j] # c

\* the fold-averaged score of the scored configuration c
AveragedScore(c) == cv.cross_fold.scores[FirstIn(c, cv.cross_fold.configurations)]

\* the scored configurations whose averaged score is the least
Minimal ==
    {c \in {cv.cross_fold.configurations[i] : i \in 1..Len(cv.cross_fold.configurations)} :
        \A j \in 1..Len(cv.cross_fold.scores) :
            RLe(AveragedScore(c), cv.cross_fold.scores[j])}

\* the candidates are the sampled configurations followed by the default
DefaultEvaluated ==
    LET default == SEARCH_MODEL_DEFAULT_CONFIGURATIONS(args.estimator_architecture)
        n       == Len(cv.configurations)
    IN  /\ n >= 1
        /\ cv.configurations[n] = default
        /\ \A f \in 1..args.k_fold_splits :
              \/ \E i \in 1..Len(cv.raised) : cv.raised[i] = <<f, n, "scoring">>
              \/ Cardinality({i \in 1..Len(cv.scored_configurations) :
                                 cv.scored_configurations[i] = default}) >= 1

\* C19: tuning evaluates the default configuration in addition to the
\* sampled ones and, when it returns, returns a scored configuration whose
\* fold-averaged score is minimal among the scored ones; of several with the
\* minimum it returns the one that was scored first (which need not be the
\* first in candidate order); its score is never greater than the default's
\* when the default was scored.
C19_TuneReturnsMinimum ==
    phase = "done" =>
        LET default == SEARCH_MODEL_DEFAULT_CONFIGURATIONS(args.estimator_architecture)
        IN  /\ DefaultEvaluated
            /\ ret \in Minimal
            /\ \A c \in Minimal :
                  FirstIn(ret, cv.scored_configurations) <=
                     FirstIn(c, cv.scored_configurations)
            /\ (\E i \in 1..Len(cv.cross_fold.configurations) :
                    cv.cross_fold.configurations[i] = default) =>
                  RLe(AveragedScore(ret), AveragedScore(default))

\* C19 witness: candidates [1, 3, default 2]; configuration 1 is scored only
\* on the second fold, so the averaged list is [3, 2, 1] with scores
\* [1, 2, 1] and configuration 3 is returned.
C19_Witness ==
    /\ phase = "done"
    /\ cv.configurations = <<[n_neighbors |-> 1], [n_neighbors |-> 3], [n_neighbors |-> 2]>>
    /\ cv.raised = <<<<1, 1, "scoring">>>>
    /\ cv.cross_fold.configurations =
          <<[n_neighbors |-> 3], [n_neighbors |-> 2], [n_neighbors |-> 1]>>
    /\ cv.cross_fold.scores = <<<<1, 1>>, <<2, 1>>, <<1, 1>>>>
    /\ ret = [n_neighbors |-> 3]

\* C19 as stated: of several configurations with the minimum the first in
\* candidate order is returned.
C19_TieByCandidateOrder ==
    phase = "done" =>
        /\ DefaultEvaluated
        /\ ret \in Minimal
        /\ \A c \in Minimal :
              FirstIn(ret, cv.configurations) <= FirstIn(c, cv.configurations)

(***************************************************************************)
(* Repeated tuning runs: what the random_state argument reaches            *)
(***************************************************************************)

\* A generator built with random_state: with an integer seed it yields the
\* stream of that seed (seeded), with None a stream of its own (fresh).
\* random_state is <<>> for None and <<seed>> for an integer.
SeededOrFresh(random_state, seeded, fresh) ==
    IF random_state = None THEN fresh ELSE seeded

\* KFold built without the random_state argument
KFold_split_unseeded(random_state, seeded, fresh) == fresh

\* KFold(n_splits=k_fold_splits, random_state=random_state, shuffle=True):
\* the split it draws
KFold_split(random_state, seeded, fresh) ==
    SeededOrFresh(random_state, seeded, fresh)

\* what the three generators of a run draw: the sampled configurations, the
\* shuffle of KFold and the estimator's own draw
Draws(estimator_architecture, n_searches) ==
    [sample : get_tuning_configurations(
                  SEARCH_MODEL_TUNING_SPACE(estimator_architecture), n_searches),
     split  : {1, 2},
     fit    : {1, 2}]

\* the score of a configuration on a fold: fixed by the data, the
\* configuration, the split and the estimator's draw
ScoreOnFold(data, configuration, fold, split, fit) ==
    Rat(1 + ((data + configuration.n_neighbors * split + fold * fit) % 3), 1)

\* cross_validate_configurations when no fit and no scoring raises: the
\* scored lists are filled fold by fold, configuration by configuration
cross_validate_configurations(configurations, k_fold_splits, data, split, fit) ==
    LET n      == Len(configurations)
        scored == [p \in 1..(k_fold_splits * n) |-> configurations[((p - 1) % n) + 1]]
        scores == [p \in 1..(k_fold_splits * n) |->
                      ScoreOnFold(data, configurations[((p - 1) % n) + 1],
                                  ((p - 1) \div n) + 1, split, fit)]
    IN  average_scores_across_folds(scored, scores)

\* _tune_component_estimator: candidates, cross-validation, best
\* configuration; every generator is built with the same random_state
tune_component_estimator(a, fresh) ==
    LET sample == SeededOrFresh(a.random_state, a.seeded.sample, fresh.sample)
        split  == KFold_split(a.random_state, a.seeded.split, fresh.split)
        fit    == SeededOrFresh(a.random_state, a.seeded.fit, fresh.fit)
        configurations ==
            Append(sample, SEARCH_MODEL_DEFAULT_CONFIGURATIONS(a.estimator_architecture))
        cross_fold ==
            cross_validate_configurations(configurations, a.k_fold_splits,
                                          a.data, split, fit)
    IN  [configurations |-> configurations,
         scored_configurations |-> cross_fold.configurations,
         scores |-> cross_fold.scores,
         best_configuration |->
             cross_fold.configurations[IndexOfMin(cross_fold.scores)]]

\* seeded holds what the generators draw for the given integer seed; it is
\* not used when random_state is None
InitDet ==
    /\ \E random_state \in {None, <<0>>, <<1>>} :
          args \in [random_state : {random_state},
                    estimator_architecture : {"KNN_NAME"},
                    n_searches : {2},
                    k_fold_splits : {2},
                    data : {0, 1},
                    seeded : IF random_state = None
                             THEN {[sample |-> <<>>, split |-> 1, fit |-> 1]}
                             ELSE Draws("KNN_NAME", 2)]
    /\ phase = "new"
    /\ runs = <<>>
    /\ eng = None
    /\ cv = None
    /\ ret = None
    /\ exc = "none"
    /\ ctl = None
    /\ breaches = <<>>
    /\ NoQis
    /\ ucb = None
    /\ ts = None
    /\ calls = <<>>

\* one more run of _tune_component_estimator with the same arguments
TuneRun ==
    /\ Len(runs) < MaxRuns
    /\ \E fresh \in Draws(args.estimator_architecture, args.n_searches) :
          runs' = Append(runs, tune_component_estimator(args, fresh))
    /\ phase' = "ran"
    /\ UNCHANGED <<args, ctl, ret, exc, breaches, qisVars, ucb, ts, calls, cv, eng>>

NextDet == TuneRun

SpecDet == InitDet /\ [][NextDet]_vars

MaxPredicts == 2

\* number of update_interval_width calls an engine hands on to its sampler
MaxDelegations == 1

\* number of rows of the X handed to predict
MaxPredictRows == 2

\* number of examples of the validation set handed to fit
MaxValExamples == 2

\* a 1-D array of the numbers in s
Array1(s) == [shape |-> <<Len(s)>>, data |-> s]

\* np.empty((0, 0))
np_empty00 == [shape |-> <<0, 0>>, data |-> <<>>]

\* np.hstack((a, b)) raises ValueError: it concatenates along axis 0 when a
\* has one dimension and along axis 1 otherwise, and np.concatenate wants
\* arrays of the same number of dimensions that agree on every other axis
np_hstack_raises(a, b) ==
    \/ Len(a.shape) # Len(b.shape)
    \/ Len(a.shape) = 2 /\ a.shape[1] # b.shape[1]

\* np.hstack((a, b)) when it returns
np_hstack(a, b) ==
    IF Len(a.shape) = 1
    THEN [shape |-> <<a.shape[1] + b.shape[1]>>, data |-> a.data \o b.data]
    ELSE [shape |-> <<a.shape[1], a.shape[2] + b.shape[2]>>,
          data  |-> [i \in 1..a.shape[1] |-> a.data[i] \o b.data[i]]]

\* repeated a = np.hstack((a, column)) over the columns in order, up to the
\* first call that raises
RECURSIVE HstackAll(_, _)
HstackAll(a, columns) ==
    IF columns = <<>> THEN [raised |-> FALSE, array |-> a]
    ELSE IF np_hstack_raises(a, columns[1]) THEN [raised |-> TRUE, array |-> a]
    ELSE HstackAll(np_hstack(a, columns[1]), Tail(columns))

\* np.quantile(a, q) of a non-empty 1-D array for 0 <= q <= 1, by linear
\* interpolation between the two nearest order statistics
np_quantile(a, q) ==
    LET s == Sort(a)
        h == RMul(q, <<Len(a) - 1, 1>>)
        j == h[1] \div h[2]
        g == RSub(h, <<j, 1>>)
    IN  IF j + 1 >= Len(a) THEN s[Len(a)]
        ELSE RAdd(s[j + 1], RMul(g, RSub(s[j + 2], s[j + 1])))

\* a + beta * x for the exploration weight beta and numbers a, x
Affine(a, beta, x) ==
    IF RMul(beta.k, x)[1] = 0 THEN BetaNumber(RAdd(a, RMul(beta.num, x)))
    ELSE [num |-> RAdd(a, RMul(beta.num, x)), k |-> RMul(beta.k, x), ln |-> beta.ln]

\* np.log(m) to four decimals for the small m the exploration step reaches
LogApprox(m) ==
    CASE m = 1 -> <<0, 1>>
      [] m = 2 -> Rat(6931, 10000)
      [] m = 3 -> Rat(10986, 10000)
      [] m = 4 -> Rat(13863, 10000)
      [] m = 5 -> Rat(16094, 10000)
      [] OTHER -> Rat(17918, 10000)

\* the number a + beta * x stands for, to the precision of LogApprox
Number(v) == RAdd(v.num, RMul(v.k, LogApprox(v.ln)))

\* the nonconformity scores without abs()
LocallyWeightedConformalSearcher_scores_signed(y_val, point_pred, var_pred) ==
    LET divisor == [i \in 1..Len(var_pred) |->
                       IF RLe(var_pred[i], <<0, 1>>) THEN <<1, 1>> ELSE var_pred[i]]
    IN  [i \in 1..Len(y_val) |-> RDiv(RSub(y_val[i], point_pred[i]), divisor[i])]

\* the end of LocallyWeightedConformalSearcher.fit: the nonconformity scores
\* from y_val and the predictions of the point and variance estimators on
\* X_val
LocallyWeightedConformalSearcher_scores(y_val, point_pred, var_pred) ==
    LET divisor == [i \in 1..Len(var_pred) |->
                       IF RLe(var_pred[i], <<0, 1>>) THEN <<1, 1>> ELSE var_pred[i]]
    IN  [i \in 1..Len(y_val) |-> RDiv(RAbs(RSub(y_val[i], point_pred[i])), divisor[i])]

\* LocallyWeightedConformalSearcher.__init__: the attributes the model follows
LocallyWeightedConformalSearcher_init ==
    [cls                  |-> "LocallyWeightedConformalSearcher",
     nonconformity_scores |-> <<>>,
     adjusted_predictions |-> <<>>,
     last                 |-> [method |-> "__init__"]]

\* LocallyWeightedConformalSearcher.fit
LocallyWeightedConformalSearcher_fit(self, y_val, point_pred, var_pred) ==
    [self EXCEPT
        !.nonconformity_scores =
            <<LocallyWeightedConformalSearcher_scores(y_val, point_pred, var_pred)>>,
        !.last = [method |-> "fit"]]

\* the columns LocallyWeightedConformalSearcher.predict stacks, in order:
\* the lower and upper bound at beta for a UCBSampler, the lower and upper
\* bound of every alpha for a ThompsonSampler
LocallyWeightedConformalSearcher_columns(self, sampler, y_pred, var_pred) ==
    LET var    == [i \in 1..Len(var_pred) |-> RMax(var_pred[i], <<0, 1>>)]
        scores == self.nonconformity_scores[1]
    IN  IF "beta" \in DOMAIN sampler
        THEN LET score_quantile == np_quantile(scores, UCBSampler_fetch_alpha(sampler))
                 scaled == [i \in 1..Len(var) |-> RMul(score_quantile, var[i])]
             IN  <<Array1([i \in 1..Len(y_pred) |->
                              Affine(y_pred[i], sampler.beta, RNeg(scaled[i]))]),
                   Array1([i \in 1..Len(y_pred) |->
                              Affine(y_pred[i], sampler.beta, scaled[i])])>>
        ELSE LET alphas == ThompsonSampler_fetch_alphas(sampler)
             IN  [c \in 1..(2 * Len(alphas)) |->
                     LET score_quantile == np_quantile(scores, alphas[(c + 1) \div 2])
                     IN  Array1([i \in 1..Len(y_pred) |->
                                    IF c % 2 = 1
                                    THEN RSub(y_pred[i], RMul(score_quantile, var[i]))
                                    ELSE RAdd(y_pred[i], RMul(score_quantile, var[i]))])]

\* LocallyWeightedConformalSearcher.predict on a fitted engine: whether it
\* raised ValueError, the engine after the call and the array it returns.
\* choice holds the column random.choice picks for every row.
LocallyWeightedConformalSearcher_predict(self, sampler, y_pred, var_pred, choice) ==
    LET h    == HstackAll(np_empty00,
                    LocallyWeightedConformalSearcher_columns(self, sampler, y_pred, var_pred))
        rows == h.array.shape[1]
    IN  [raised      |-> h.raised,
         self        |-> [self EXCEPT
                             !.adjusted_predictions = <<h.array>>,
                                                  !.last = [method |-> "predict", rows |-> Len(y_pred)]],
         lower_bound |-> IF h.raised THEN None
                         ELSE IF "beta" \in DOMAIN sampler
                              THEN [i \in 1..rows |-> h.array.data[i][1]]
                         ELSE [i \in 1..rows |-> h.array.data[i][choice[i]]]]

\* LocallyWeightedConformalSearcher.update_interval_width: the exception it
\* raises before it reaches the sampler ("none" if none) and the breach
\* indicators it hands to the sampler's update_interval_width, one list
\* element per call of that method
LocallyWeightedConformalSearcher_update_interval_width(self, sampler, sampled_idx, sampled_performance) ==
    IF self.adjusted_predictions = <<>>
    THEN [exc |-> "AttributeError", delegated |-> <<>>]
    ELSE LET a == self.adjusted_predictions[1]
         IN  IF sampled_idx >= a.shape[1]
             THEN [exc |-> "IndexError", delegated |-> <<>>]
             ELSE IF "beta" \in DOMAIN sampler
                  THEN IF a.shape[2] < 2
                       THEN [exc |-> "IndexError", delegated |-> <<>>]
                       ELSE LET row == a.data[sampled_idx + 1]
                            IN  [exc |-> "none",
                                 delegated |->
                                    <<IF /\ RLe(Number(row[1]), sampled_performance)
                                         /\ RLe(sampled_performance, Number(row[2]))
                                      THEN 0 ELSE 1>>]
                  ELSE [exc |-> "none", delegated |-> <<>>]

\* QuantileConformalRegression.__init__: the attributes the model follows.
\* fitted_on names the data quantile_estimator.fit was last called with.
QuantileConformalRegression_init(n_pre_conformal_trials) ==
    [cls                          |-> "QuantileConformalRegression",
     n_pre_conformal_trials       |-> n_pre_conformal_trials,
     quantiles                    |-> <<>>,
     fitted_on                    |-> <<>>,
     conformalize_predictions     |-> <<>>,
     indexed_nonconformity_scores |-> <<>>,
     lower_interval_bound         |-> <<>>,
     upper_interval_bound         |-> <<>>,
     adjusted_predictions         |-> <<>>,
     last                         |-> [method |-> "__init__"]]

\* self.quantiles as fit sets it: [lower, 0.5, upper] for a UCBSampler, the
\* flattened list of the sampler's intervals for a ThompsonSampler
QuantileConformalRegression_quantiles(sampler) ==
    IF "beta" \in DOMAIN sampler
    THEN LET q == UCBSampler_fetch_quantiles(sampler)
         IN  <<q[1], <<1, 2>>, q[2]>>
    ELSE to_flattened_list(ThompsonSampler_fetch_quantiles(sampler))

\* max(lower_deviation, upper_deviation) of every validation example, from
\* the columns lo and hi (counted from 1) of the predictions on X_val
ConformalDeviations(val_pred, y_val, lo, hi) ==
    [e \in 1..Len(y_val) |->
        RMax(RSub(val_pred[e][lo], y_val[e]), RSub(y_val[e], val_pred[e][hi]))]

\* self.indexed_nonconformity_scores as the conformal branch of fit builds
\* it: a dictionary from column index to scores
QuantileConformalRegression_scores(sampler, quantiles, val_pred, y_val) ==
    IF "beta" \in DOMAIN sampler
    THEN [key \in {0, -1} |-> ConformalDeviations(val_pred, y_val, 1, Len(quantiles))]
    ELSE LET n     == sampler.n_quantiles
             pairs == Len(quantiles) \div 2
         IN  [key \in (0..(pairs - 1)) \cup {n - 1 - i : i \in 0..(pairs - 1)} |->
                 LET i == IF key < pairs THEN key ELSE n - 1 - key
                 IN  ConformalDeviations(val_pred, y_val, 1 + i, n - i)]

\* the test of fit that never takes the conformal branch
QuantileConformalRegression_conformal_never(self, n_train, n_val) == FALSE

\* the test of fit: len(X_train) + len(X_val) > self.n_pre_conformal_trials
QuantileConformalRegression_conformal(self, n_train, n_val) ==
    n_train + n_val > self.n_pre_conformal_trials

\* QuantileConformalRegression.fit; val_pred is what the estimator fitted on
\* the training data predicts on X_val
QuantileConformalRegression_fit(self, sampler, n_train, y_val, val_pred) ==
    LET quantiles == QuantileConformalRegression_quantiles(sampler)
    IN  IF QuantileConformalRegression_conformal(self, n_train, Len(y_val))
        THEN [self EXCEPT
                 !.quantiles = quantiles,
                 !.fitted_on = <<"X_train">>,
                 !.indexed_nonconformity_scores =
                     <<QuantileConformalRegression_scores(sampler, quantiles, val_pred, y_val)>>,
                 !.conformalize_predictions = <<TRUE>>,
                          !.last = [method |-> "fit"]]
        ELSE [self EXCEPT
                 !.quantiles = quantiles,
                 !.fitted_on = <<"vstack(X_train, X_val)">>,
                 !.conformalize_predictions = <<FALSE>>,
                          !.last = [method |-> "fit"]]

\* the adjustment predict applies to the columns of the predictions: one
\* number for a UCBSampler (subtracted from the first column, added to the
\* last), one per column for a ThompsonSampler
QuantileConformalRegression_adjustment(self, sampler) ==
    IF "beta" \in DOMAIN sampler
    THEN IF self.conformalize_predictions[1]
         THEN np_quantile(self.indexed_nonconformity_scores[1][0],
                          UCBSampler_fetch_quantiles(sampler)[1])
         ELSE <<0, 1>>
    ELSE IF self.conformalize_predictions[1]
         THEN LET levels == to_flattened_list(ThompsonSampler_fetch_quantiles(sampler))
              IN  [c \in 1..sampler.n_quantiles |->
                      LET score == np_quantile(
                                      self.indexed_nonconformity_scores[1][c - 1],
                                      levels[c])
                      IN  IF 2 * (c - 1) < sampler.n_quantiles
                          THEN RNeg(score) ELSE score]
         ELSE [c \in 1..sampler.n_quantiles |-> <<0, 1>>]

\* the acquisition values computed with the beta the exploration step of
\* this call leaves
AcquisitionValues_newBeta(sampler, predictions, lower) ==
    [i \in 1..Len(predictions) |->
        Affine(predictions[i][2], UCBSampler_update_exploration_step(sampler).beta,
               RSub(predictions[i][2], lower[i]))]

\* lower_bound of the UCB branch of predict: the median plus beta times the
\* distance of the median from the lower interval bound
AcquisitionValues(sampler, predictions, lower) ==
    [i \in 1..Len(predictions) |->
        Affine(predictions[i][2], sampler.beta, RSub(predictions[i][2], lower[i]))]

\* QuantileConformalRegression.predict on a fitted engine: the engine after
\* the call and the array it returns. predictions is what the estimator
\* predicts on X, a row per example; choice holds the column random.choice
\* picks for every row.
QuantileConformalRegression_predict(self, sampler, predictions, choice) ==
    LET adj  == QuantileConformalRegression_adjustment(self, sampler)
        rows == Len(predictions)
        last == [method |-> "predict", rows |-> rows, predictions |-> predictions]
    IN  IF "beta" \in DOMAIN sampler
        THEN LET lower == [i \in 1..rows |-> RSub(predictions[i][1], adj)]
                 upper == [i \in 1..rows |->
                              RAdd(predictions[i][Len(predictions[i])], adj)]
             IN  [self        |-> [self EXCEPT !.lower_interval_bound = <<lower>>,
                                               !.upper_interval_bound = <<upper>>,
                                                                                      !.last = last],
                  lower_bound |-> AcquisitionValues(sampler, predictions, lower)]
        ELSE LET adjusted == [i \in 1..rows |->
                                 [c \in 1..Len(predictions[i]) |->
                                     RAdd(predictions[i][c], adj[c])]]
             IN  [self        |-> [self EXCEPT !.adjusted_predictions = <<adjusted>>,
                                                                                      !.last = last],
                  lower_bound |-> [i \in 1..rows |-> adjusted[i][choice[i]]]]

\* the breach indicator of one interval: 0 when lower <= performance <= upper
Breach(lower, upper, sampled_performance) ==
    IF RLe(lower, sampled_performance) /\ RLe(sampled_performance, upper) THEN 0 ELSE 1

\* the breach list with the innermost interval first
BreachList_innerFirst(row, sampled_performance) ==
    LET seq == from_flattened_list(row)
    IN  [i \in 1..Len(seq) |->
            Breach(seq[Len(seq) + 1 - i][1], seq[Len(seq) + 1 - i][2], sampled_performance)]

\* the breach list of the Thompson branch of update_interval_width: one
\* indicator per interval of the sequence built from the stored row
BreachList(row, sampled_performance) ==
    LET seq == from_flattened_list(row)
    IN  [i \in 1..Len(seq) |-> Breach(seq[i][1], seq[i][2], sampled_performance)]

\* QuantileConformalRegression.update_interval_width: the exception it
\* raises before it reaches the sampler ("none" if none) and the breach
\* indicators it hands to the sampler's update_interval_width, one list
\* element per call of that method
QuantileConformalRegression_update_interval_width(self, sampler, sampled_idx, sampled_performance) ==
    IF "beta" \in DOMAIN sampler
    THEN IF self.lower_interval_bound = <<>>
         THEN [exc |-> "AttributeError", delegated |-> <<>>]
         ELSE IF sampled_idx >= Len(self.lower_interval_bound[1])
              THEN [exc |-> "IndexError", delegated |-> <<>>]
              ELSE [exc |-> "none",
                    delegated |-> <<Breach(self.lower_interval_bound[1][sampled_idx + 1],
                                           self.upper_interval_bound[1][sampled_idx + 1],
                                           sampled_performance)>>]
    ELSE IF self.adjusted_predictions = <<>>
         THEN [exc |-> "AttributeError", delegated |-> <<>>]
         ELSE IF sampled_idx >= Len(self.adjusted_predictions[1])
              THEN [exc |-> "IndexError", delegated |-> <<>>]
              ELSE [exc |-> "none",
                    delegated |-> <<BreachList(self.adjusted_predictions[1][sampled_idx + 1],
                                               sampled_performance)>>]

\* ------------------------------------------------- the engines' state machine
\* constructor arguments of the sampler an engine is built with
EngineUCBArgs ==
    {a \in [beta_decay : {"logarithmic_decay", "logarithmic_growth"},
            beta : {Rat(1, 1)},
            c : {Rat(1, 1)},
            interval_width : {Rat(1, 5)},
            adapter_framework : {"None", "ACI", "DtACI"}] :
        /\ a.beta_decay = "logarithmic_growth" => a.adapter_framework = "None"
        /\ ~(/\ a.adapter_framework = "DtACI"
             /\ DtACI_default_invalid(RSub(<<1, 1>>, a.interval_width)))}

EngineThompsonArgs(counts) ==
    {a \in [n_quantiles : counts, adapter_framework : {"None", "ACI", "DtACI"}] :
        /\ a.n_quantiles = 0 => a.adapter_framework = "None"
        /\ a.n_quantiles = 2 => a.adapter_framework # "ACI"
        /\ a.n_quantiles = 4 => a.adapter_framework # "DtACI"
        /\ a.n_quantiles = 6 => a.adapter_framework = "None"
        /\ ~ThompsonSampler_invalid(a.n_quantiles)
        /\ ~ThompsonSampler_adapter_raises(a.n_quantiles, a.adapter_framework)}

\* targets of m validation examples: 0 and 5 in turn
ValTargets(m) == {[i \in 1..m |-> IF i % 2 = 1 THEN Rat(0, 1) ELSE Rat(5, 1)]}

\* what a point estimator predicts for m examples
PointPredictions(m) == {[i \in 1..m |-> Rat(1, 1)]}

\* what the variance estimator predicts for m examples: the same negative,
\* zero or positive number for all, or positive and zero in turn
VariancePredictions(m) ==
    {[i \in 1..m |-> v] : v \in {Rat(-1, 1), Rat(0, 1), Rat(2, 1)}}
        \cup {[i \in 1..m |-> IF i % 2 = 1 THEN Rat(2, 1) ELSE Rat(0, 1)]}

\* what the variance estimator predicts for the m rows handed to predict
PredictedVariances(m) == {[i \in 1..m |-> IF i % 2 = 1 THEN Rat(2, 1) ELSE Rat(-1, 1)]}

\* the numbers of rows tried for a bound: one and as many as the bound allows
RowCounts(max) == {1, max}

\* a row a quantile estimator of n levels predicts: the levels in order from
\* a base value, or crossed
OrderedRow(n, base) == [c \in 1..n |-> Rat(base + 2 * c, 1)]

CrossedRow(n, base) == [c \in 1..n |-> Rat(base + 2 * (n + 1 - c), 1)]

\* what a quantile estimator of n levels predicts for m examples
QuantilePredictions(m, n) ==
    {[i \in 1..m |-> OrderedRow(n, 0)],
     [i \in 1..m |-> IF i % 2 = 1 THEN CrossedRow(n, 1) ELSE OrderedRow(n, 3)]}

\* the sampled_performance values handed to update_interval_width
Performances == {Rat(5, 1), Rat(7, 1), Rat(12, 1)}

\* the columns random.choice picks in m rows of n columns: the first in every
\* row, or the last, the one before and so on from row to row; no choice is
\* made for a UCBSampler
Choices(m, n) ==
    IF n = 0 THEN {[i \in 1..m |-> 1]}
    ELSE {[i \in 1..m |-> 1], [i \in 1..m |-> n - ((i - 1) % n)]}

\* number of columns random.choice picks from for these arguments
ChoiceCount(a) == IF "n_quantiles" \in DOMAIN a THEN a.n_quantiles ELSE 0

\* number of columns the quantile estimator predicts for these arguments
LevelCount(a) == IF "n_quantiles" \in DOMAIN a THEN a.n_quantiles ELSE 3

\* the sampler the engine holds
Sampler == IF IsUCBSampler THEN ucb ELSE ts[1]

IsLW == eng[1].cls = "LocallyWeightedConformalSearcher"

IsQCR == eng[1].cls = "QuantileConformalRegression"

\* what the construction of sampler and engine leaves in every other variable
EngineBuilt ==
    /\ phase = "ready"
    /\ ucb = IF IsUCBSampler
             THEN UCBSampler_init(args.beta_decay, args.beta, args.c,
                                  args.interval_width, args.adapter_framework)
             ELSE None
    /\ ts = IF IsThompsonSampler
            THEN <<ThompsonSampler_init(args.n_quantiles, args.adapter_framework)>>
            ELSE None
    /\ ctl = None
    /\ ret = None
    /\ exc = "none"
    /\ breaches = <<>>
    /\ calls = <<>>
    /\ cv = None
    /\ runs = <<>>
    /\ NoQis

\* a LocallyWeightedConformalSearcher with its sampler, and the data fit is
\* called with: y_val and what the fitted estimators predict on X_val
InitLW ==
    /\ \E s \in EngineUCBArgs \cup EngineThompsonArgs({0, 2, 4}) :
       \E n_val \in RowCounts(MaxValExamples) :
          args \in {s @@ d : d \in [y_val      : ValTargets(n_val),
                                    point_pred : PointPredictions(n_val),
                                    var_pred   : VariancePredictions(n_val)]}
    /\ eng = <<LocallyWeightedConformalSearcher_init>>
    /\ EngineBuilt

\* a QuantileConformalRegression with its sampler, and the data fit is called
\* with: the sizes, y_val and what the estimator fitted on X_train predicts on
\* X_val
InitQCR ==
    /\ \E s \in EngineUCBArgs \cup EngineThompsonArgs({2, 4, 6}) :
       \E n_val \in RowCounts(MaxValExamples) :
          args \in {s @@ d : d \in [n_pre_conformal_trials : {3},
                                    n_train  : {2},
                                    y_val    : ValTargets(n_val),
                                    val_pred : {[i \in 1..n_val |->
                                                   OrderedRow(LevelCount(s), 0)]}]}
    /\ eng = <<QuantileConformalRegression_init(args.n_pre_conformal_trials)>>
    /\ EngineBuilt

InitEngines == InitLW \/ InitQCR

\* self.sampler.update_exploration_step() at the end of a predict call that
\* reached it
StepSampler(reached) ==
    IF reached /\ IsUCBSampler
    THEN /\ ucb' = UCBSampler_update_exploration_step(ucb)
         /\ calls' = Append(calls, "update_exploration_step")
    ELSE UNCHANGED <<ucb, calls>>

\* the end of an engine's update_interval_width: what it raised itself, or
\* the call of the sampler's update_interval_width with what it delegates,
\* which raises AttributeError on a sampler without controller
DelegateToSampler(u) ==
    IF u.delegated = <<>>
    THEN /\ exc' = u.exc
         /\ UNCHANGED <<ucb, ts, breaches>>
    ELSE /\ breaches' = Append(breaches, u.delegated[1])
         /\ IF IsUCBSampler
            THEN IF ucb.adapter = <<>>
                 THEN exc' = "AttributeError" /\ UNCHANGED <<ucb, ts>>
                 ELSE /\ exc' = "none"
                      /\ ucb' = UCBSampler_update_interval_width(ucb, u.delegated[1])
                      /\ UNCHANGED ts
            ELSE IF ~ts[1].has_adapters
                 THEN exc' = "AttributeError" /\ UNCHANGED <<ucb, ts>>
                 ELSE /\ exc' = "none"
                      /\ ts' = <<ThompsonSampler_update_interval_width(ts[1], u.delegated[1])>>
                      /\ UNCHANGED ucb

\* the note an engine's update_interval_width call leaves in the engine
UpdateCalled(self, sampled_idx, sampled_performance) ==
    [self EXCEPT !.last = [method |-> "update_interval_width",
                        sampled_idx |-> sampled_idx,
                        sampled_performance |-> sampled_performance]]

engRest == <<args, phase, ctl, qisVars, cv, runs>>

\* LocallyWeightedConformalSearcher.fit(...)
LWFit ==
    /\ IsLW
    /\ eng' = <<LocallyWeightedConformalSearcher_fit(eng[1], args.y_val,
                                                     args.point_pred, args.var_pred)>>
    /\ ret' = None
    /\ exc' = "none"
    /\ UNCHANGED <<ucb, ts, calls, breaches, engRest>>

\* LocallyWeightedConformalSearcher.predict(X) on a fitted engine
LWPredict ==
    /\ IsLW
    /\ eng[1].nonconformity_scores # <<>>
    /\ IsUCBSampler => Len(calls) < MaxPredicts
    /\ \E m \in RowCounts(MaxPredictRows) :
       \E y_pred \in PointPredictions(m), var_pred \in PredictedVariances(m) :
       \E choice \in Choices(m, ChoiceCount(args)) :
          LET r == LocallyWeightedConformalSearcher_predict(eng[1], Sampler, y_pred,
                                                            var_pred, choice)
          IN  /\ eng' = <<r.self>>
              /\ ret' = r.lower_bound
              /\ exc' = IF r.raised THEN "ValueError" ELSE "none"
              /\ StepSampler(~r.raised)
    /\ UNCHANGED <<ts, breaches, engRest>>

\* LocallyWeightedConformalSearcher.update_interval_width(sampled_idx,
\* sampled_performance)
LWUpdateIntervalWidth ==
    /\ IsLW
    /\ Len(breaches) < MaxDelegations
    /\ \E sampled_idx \in {0, MaxPredictRows - 1}, sampled_performance \in Performances :
          /\ eng' = <<UpdateCalled(eng[1], sampled_idx, sampled_performance)>>
          /\ DelegateToSampler(LocallyWeightedConformalSearcher_update_interval_width(
                                  eng[1], Sampler, sampled_idx, sampled_performance))
    /\ ret' = None
    /\ UNCHANGED <<calls, engRest>>

\* QuantileConformalRegression.fit(...)
QCRFit ==
    /\ IsQCR
    /\ eng' = <<QuantileConformalRegression_fit(eng[1], Sampler, args.n_train,
                                                args.y_val, args.val_pred)>>
    /\ ret' = None
    /\ exc' = "none"
    /\ UNCHANGED <<ucb, ts, calls, breaches, engRest>>

\* QuantileConformalRegression.predict(X) on a fitted engine
QCRPredict ==
    /\ IsQCR
    /\ eng[1].fitted_on # <<>>
    /\ IsUCBSampler => Len(calls) < MaxPredicts
    /\ \E m \in RowCounts(MaxPredictRows) :
       \E predictions \in QuantilePredictions(m, Len(eng[1].quantiles)) :
       \E choice \in Choices(m, ChoiceCount(args)) :
          LET r == QuantileConformalRegression_predict(eng[1], Sampler, predictions, choice)
          IN  /\ eng' = <<r.self>>
              /\ ret' = r.lower_bound
    /\ exc' = "none"
    /\ StepSampler(TRUE)
    /\ UNCHANGED <<ts, breaches, engRest>>

\* QuantileConformalRegression.update_interval_width(sampled_idx,
\* sampled_performance)
QCRUpdateIntervalWidth ==
    /\ IsQCR
    /\ Len(breaches) < MaxDelegations
    /\ \E sampled_idx \in {0, MaxPredictRows - 1}, sampled_performance \in Performances :
          /\ eng' = <<UpdateCalled(eng[1], sampled_idx, sampled_performance)>>
          /\ DelegateToSampler(QuantileConformalRegression_update_interval_width(
                                  eng[1], Sampler, sampled_idx, sampled_performance))
    /\ ret' = None
    /\ UNCHANGED <<calls, engRest>>

NextEngines ==
    \/ LWFit
    \/ LWPredict
    \/ LWUpdateIntervalWidth
    \/ QCRFit
    \/ QCRPredict
    \/ QCRUpdateIntervalWidth

SpecEngines == InitEngines /\ [][NextEngines]_vars

\* ------------------------------------------------------ claims on the engines
\* the latest call on the engine was this method
LastCall(method) == eng[1].last.method = method

\* C25: after LocallyWeightedConformalSearcher.fit one score is stored per
\* validation example; its divisor is the variance prediction, or 1 when that
\* prediction is <= 0, so it is strictly positive, and the score is
\* |y_val - point prediction| / divisor, which is >= 0.
C25_ScoresOfFit ==
    (IsLW /\ eng[1].nonconformity_scores # <<>>) =>
        LET scores == eng[1].nonconformity_scores[1]
        IN  /\ Len(scores) = Len(args.y_val)
            /\ \A i \in 1..Len(args.y_val) :
                  LET divisor == IF args.var_pred[i][1] <= 0 THEN <<1, 1>>
                                 ELSE args.var_pred[i]
                  IN  /\ divisor[1] > 0
                      /\ RMul(scores[i], divisor)
                            = RAbs(RSub(args.y_val[i], args.point_pred[i]))
                      /\ scores[i][1] >= 0

\* C25 witness: targets 0 and 5, point predictions 1 and 1, variance
\* predictions 2 and 0: the scores are 1/2 and 4/1.
C25_Witness ==
    /\ IsLW
    /\ args.y_val = <<Rat(0, 1), Rat(5, 1)>>
    /\ args.var_pred = <<Rat(2, 1), Rat(0, 1)>>
    /\ eng[1].nonconformity_scores = <<<<Rat(1, 2), Rat(4, 1)>>>>

\* C21: QuantileConformalRegression.fit on more than n_pre_conformal_trials
\* examples (training and validation together) fits on the training data,
\* stores scores of the validation examples and sets conformalize_predictions;
\* on at most that many it fits on the pooled data, clears
\* conformalize_predictions, and every predict after it stores the
\* estimator's predictions unadjusted, for both sampler types.
C21_ConformalGating ==
    (IsQCR /\ eng[1].fitted_on # <<>>) =>
        LET self == eng[1]
        IN  IF args.n_train + Len(args.y_val) > args.n_pre_conformal_trials
            THEN /\ self.fitted_on = <<"X_train">>
                 /\ self.conformalize_predictions = <<TRUE>>
                 /\ self.indexed_nonconformity_scores # <<>>
                 /\ \A key \in DOMAIN self.indexed_nonconformity_scores[1] :
                       Len(self.indexed_nonconformity_scores[1][key]) = Len(args.y_val)
            ELSE /\ self.fitted_on = <<"vstack(X_train, X_val)">>
                 /\ self.conformalize_predictions = <<FALSE>>
                 /\ LastCall("predict") =>
                       IF IsUCBSampler
                       THEN \A i \in 1..self.last.rows :
                               /\ self.lower_interval_bound[1][i]
                                     = self.last.predictions[i][1]
                               /\ self.upper_interval_bound[1][i]
                                     = self.last.predictions[i][3]
                       ELSE self.adjusted_predictions[1] = self.last.predictions

\* C21 witness: 2 training examples and 1 validation example with the
\* threshold at 3 are pooled, and a predict on two rows has stored the raw
\* predictions.
C21_Witness ==
    /\ IsQCR
    /\ IsThompsonSampler
    /\ args.n_train = 2
    /\ Len(args.y_val) = 1
    /\ args.n_pre_conformal_trials = 3
    /\ eng[1].conformalize_predictions = <<FALSE>>
    /\ LastCall("predict")
    /\ eng[1].last.rows = 2
    /\ eng[1].adjusted_predictions = <<eng[1].last.predictions>>

\* C27: the breach list QuantileConformalRegression.update_interval_width
\* hands to a ThompsonSampler has n_quantiles / 2 entries; entry i is 0 exactly
\* when the performance lies between the i-th smallest and the i-th largest
\* value of the stored row, so the outermost pair comes first and the list is
\* monotone: no 1 is followed by a 0.
C27_BreachListMonotone ==
    [][(IsQCR /\ IsThompsonSampler /\ breaches' # breaches) =>
          LET passed == breaches'[Len(breaches')]
              call   == eng'[1].last
              row    == Sort(eng[1].adjusted_predictions[1][call.sampled_idx + 1])
              n      == ts[1].n_quantiles
          IN  /\ call.method = "update_interval_width"
              /\ Len(passed) = n \div 2
              /\ \A i \in 1..(n \div 2) :
                    passed[i] = 0 <=>
                        /\ RLe(row[i], call.sampled_performance)
                        /\ RLe(call.sampled_performance, row[n + 1 - i])
              /\ \A i \in 1..(n \div 2), j \in 1..(n \div 2) :
                    (i < j /\ passed[i] = 1) => passed[j] = 1]_vars

\* C27 witness: four levels, a stored row that is not in order, and a
\* performance inside the outer pair but outside the inner one.
C27_Witness ==
    /\ IsQCR
    /\ IsThompsonSampler
    /\ ts[1].n_quantiles = 4
    /\ LastCall("update_interval_width")
    /\ breaches = <<<<0, 1>>>>
    /\ LET row == eng[1].adjusted_predictions[1][eng[1].last.sampled_idx + 1]
       IN  RLt(row[2], row[1])

\* the engine's sampler owns a controller
HasController == IF IsUCBSampler THEN ucb.adapter # <<>> ELSE ts[1].has_adapters

\* this step is a call of the engine's update_interval_width right after a
\* predict call, with a sampled_idx that is a row of that call's X
UpdateAfterPredict ==
    /\ LastCall("predict")
    /\ eng'[1].last.method = "update_interval_width"
    /\ eng'[1].last.sampled_idx < eng[1].last.rows

\* C22: LocallyWeightedConformalSearcher.update_interval_width after a predict
\* call hands the breach indicator(s) of the stored row to the sampler's
\* update_interval_width exactly once, for a UCBSampler and a ThompsonSampler
\* alike, and a sampler with a controller is updated by the call.
C22_DelegatesOnce ==
    [][(IsLW /\ UpdateAfterPredict) =>
          /\ Len(breaches') = Len(breaches) + 1
          /\ HasController =>
                /\ exc' = "none"
                /\ IF IsUCBSampler
                   THEN ucb' = UCBSampler_update_interval_width(
                                  ucb, breaches'[Len(breaches')])
                   ELSE ts' = <<ThompsonSampler_update_interval_width(
                                  ts[1], breaches'[Len(breaches')])>>]_vars

\* C23: in both engines with a UCBSampler, update_interval_width after predict
\* feeds the sampler one breach, computed from the bounds the most recent
\* predict stored for the row sampled_idx: 0 when lower <= performance <=
\* upper, 1 otherwise.
C23_BreachFromStoredBounds ==
    [][(IsUCBSampler /\ UpdateAfterPredict) =>
          LET idx  == eng'[1].last.sampled_idx + 1
              perf == eng'[1].last.sampled_performance
          IN  IF IsQCR
              THEN breaches' = Append(breaches,
                      IF /\ RLe(eng[1].lower_interval_bound[1][idx], perf)
                         /\ RLe(perf, eng[1].upper_interval_bound[1][idx])
                      THEN 0 ELSE 1)
              ELSE /\ eng[1].adjusted_predictions[1].shape = <<eng[1].last.rows, 2>>
                   /\ LET row == eng[1].adjusted_predictions[1].data[idx]
                      IN  breaches' = Append(breaches,
                             IF /\ RLe(Number(row[1]), perf)
                                /\ RLe(perf, Number(row[2]))
                             THEN 0 ELSE 1)]_vars

\* C24: predict(X) on a fitted engine of either class with either sampler
\* returns, with one acquisition value per row of X, and has stored interval
\* bounds for every row of X.
C24_PredictReturnsPerRow ==
    LastCall("predict") =>
        /\ exc = "none"
        /\ ret # None
        /\ Len(ret) = eng[1].last.rows
        /\ IF IsLW
           THEN /\ eng[1].adjusted_predictions # <<>>
                /\ eng[1].adjusted_predictions[1].shape[1] = eng[1].last.rows
           ELSE IF IsUCBSampler
                THEN /\ Len(eng[1].lower_interval_bound[1]) = eng[1].last.rows
                     /\ Len(eng[1].upper_interval_bound[1]) = eng[1].last.rows
                ELSE Len(eng[1].adjusted_predictions[1]) = eng[1].last.rows

\* C29: the exploration step of a fresh UCBSampler is 1; a predict call of an
\* engine that returns advances it by exactly one update_exploration_step,
\* after the acquisition values were computed with the beta of before the
\* call; fit and update_interval_width leave t and beta alone. A predict call
\* with a ThompsonSampler leaves the sampler as it was.
C29_StepPerPredict ==
    /\ IsUCBSampler => (ucb.t = 1 /\ calls = <<>>)
    /\ [][LET call == eng'[1].last
          IN  IF IsUCBSampler
              THEN IF call.method = "predict"
                   THEN exc' = "none" =>
                           /\ ucb'.t = ucb.t + 1
                           /\ ucb' = UCBSampler_update_exploration_step(ucb)
                           /\ calls' = Append(calls, "update_exploration_step")
                           /\ IsQCR =>
                                 ret' = [i \in 1..call.rows |->
                                            LET median == call.predictions[i][2]
                                                lower  == eng'[1].lower_interval_bound[1][i]
                                            IN  Affine(median, ucb.beta,
                                                       RSub(median, lower))]
                   ELSE /\ ucb'.t = ucb.t
                        /\ ucb'.beta = ucb.beta
                        /\ calls' = calls
              ELSE call.method = "predict" => ts' = ts]_vars

\* C29 witness: a second predict under logarithmic growth: it has left t = 3
\* and beta = 2 log 3, and its first value carries the beta 2 log 2 of before.
C29_Witness ==
    /\ IsQCR
    /\ IsUCBSampler
    /\ LastCall("predict")
    /\ ucb.beta_decay = "logarithmic_growth"
    /\ ucb.t = 3
    /\ ucb.beta.ln = 3
    /\ ret[1].ln = 2

(***************************************************************************)
(* The samplers called directly and through an engine                      *)
(***************************************************************************)
InitSamplerUse == InitSamplers \/ InitEngines

NextSamplerUse ==
    \/ eng = None /\ NextSamplers
    \/ eng # None /\ NextEngines

SpecSamplerUse == InitSamplerUse /\ [][NextSamplerUse]_vars

\* a sampler has been built and it owns no controller
NoController ==
    /\ phase = "ready"
    /\ IF IsUCBSampler THEN ucb.adapter = <<>> ELSE ~ts[1].has_adapters

\* this step is a call of update_interval_width, on the sampler itself or on
\* the engine that holds it
UpdateIntervalWidthCalled ==
    IF eng = None THEN breaches' # breaches
    ELSE eng'[1].last.method = "update_interval_width"

\* C28: on a UCBSampler or ThompsonSampler built with adapter_framework=None
\* every update_interval_width call, made on the sampler or through an
\* engine, ends in an exception and leaves the sampler (its alpha or alphas,
\* quantiles, t and beta) as it was.
C28_NoControllerUpdateFails ==
    [][(NoController /\ UpdateIntervalWidthCalled) =>
          /\ exc' \in {"AttributeError", "IndexError"}
          /\ ucb' = ucb
          /\ ts' = ts]_vars

\* C28 witness: a QuantileConformalRegression whose ThompsonSampler has no
\* controllers has handed a breach list to the sampler, which raised.
C28_Witness ==
    /\ eng # None
    /\ IsQCR
    /\ IsThompsonSampler
    /\ NoController
    /\ LastCall("update_interval_width")
    /\ breaches # <<>>
    /\ exc = "AttributeError"
    /\ ts = <<ThompsonSampler_init(args.n_quantiles, "None")>>

====
